---- MODULE Spec2Model ----
(***************************************************************************)
(* A model of the Letta proxy's reconciliation layer:                      *)
(*   - proxy_overlay.py   : SessionOverlayStore and                        *)
(*                          ProxyOverlayManager.apply_overlay              *)
(*   - proxy_tool_bridge.py: ProxyToolBridge.sync_agent_tools              *)
(*   - main.py            : chat_completions (outbound batch, tool sync)   *)
(* The Letta backend is modelled by the state its client calls read and    *)
(* write: memory blocks, per-agent block attachments, the tool registry    *)
(* and per-agent tool attachments.  A backend call either succeeds or      *)
(* raises; which one is an input of the action that issues it.             *)
(***************************************************************************)
EXTENDS Integers, Sequences, FiniteSets, TLC

VARIABLES
    now,            \* time.monotonic(), in whole seconds
    session_store,  \* ProxyOverlayManager._session_store._store (OrderedDict, oldest first)
    blocks,         \* backend: memory blocks, the block id is the index
    agent_blocks,   \* backend: agent id -> ids of the blocks attached to it
    last_overlay,   \* the apply_overlay call completed last (observation only)
    faulted,        \* whether a backend call of an apply_overlay has raised so far
    tool_registry,  \* backend: names of the tools registered (client.tools.upsert)
    agent_tools,    \* backend: agent id -> names of the tools attached to it
    tool_mapping,   \* ProxyToolBridge.tool_mapping: OpenAI name -> Letta tool id
    letta_name_mapping, \* ProxyToolBridge.letta_name_mapping: Letta tool id -> Letta name
    last_sync,      \* the sync_agent_tools call completed last (observation only)
    batch_in,       \* the inputs of one composition of the outbound batch
    batch_out,      \* the batch composed from batch_in, once composed
    agent_map,      \* main.agent_map: model (agent name) -> agent id
    bridge_ready,   \* whether initialize_proxy_bridge has run (proxy_bridge is not None)
    derived_sessions, \* ProxyOverlayManager._derived_sessions._store (oldest first)
    last_chat,      \* the chat_completions request served last (observation only)
    max_sessions,   \* max_sessions of ProxyOverlayManager: the capacity of both caches
    touch,          \* per key, when it was last set and last set or returned (observation only)
    last_store,     \* the cache operation completed last (observation only)
    last_derive,    \* the derive_session_id call completed last (observation only)
    tasks,          \* the apply_overlay (or sync_agent_tools) coroutines in flight: where each is suspended
    overlapped      \* whether a call began while another was suspended (observation only)

overlay_vars == <<now, session_store, blocks, agent_blocks, last_overlay, faulted>>
sync_vars == <<tool_registry, agent_tools, tool_mapping, letta_name_mapping, last_sync>>
batch_vars == <<batch_in, batch_out>>
chat_vars == <<agent_map, bridge_ready, derived_sessions, last_chat>>
store_vars == <<max_sessions, touch, last_store, last_derive>>
race_vars == <<tasks, overlapped>>
vars == <<overlay_vars, sync_vars, batch_vars, chat_vars, store_vars, race_vars>>

\* ---------------------------------------------------------------- bounds

\* max_sessions given to ProxyOverlayManager (the tests pass 4, the default is 100)
MaxSessions == 1
\* ttl_seconds given to ProxyOverlayManager
TtlSeconds == 1
\* the clock stops advancing here
MaxTime == 2
\* the backend allocates at most this many block ids
MaxBlocks == 3

\* ------------------------------------------------------------ value sets

Agents == {"agent-1", "agent-2"}
\* the agent whose overlay traffic SpecOverlay follows
OverlayAgents == {"agent-1"}
\* session ids are token sequences: an explicit id is one token, a derived id is
\* the agent id and a hash or "default"
Sessions == { <<"session-1">>, <<"session-2">> }

\* system_content values; <<>> stands for both None and "" (both are falsy)
RawContents == { <<>>, <<"x", "CR", "LF">>, <<"x", "NUL", "CR">>, <<"y">> }

OVERLAY_LABEL == "proxy_system_overlay"

\* Optional[str] fields that are unset
NoHash == <<>>
NoBlock == 0

\* -------------------------------------------------------- pure functions

RECURSIVE ReplaceCRLF(_)
\* str.replace("\r\n", "\n"): left to right, non-overlapping
ReplaceCRLF(s) ==
    IF s = <<>> THEN <<>>
    ELSE IF Len(s) >= 2 /\ s[1] = "CR" /\ s[2] = "LF"
         THEN <<"LF">> \o ReplaceCRLF(SubSeq(s, 3, Len(s)))
         ELSE <<s[1]>> \o ReplaceCRLF(Tail(s))

\* str.replace("\x00", "")
StripNul(s) == SelectSeq(s, LAMBDA c : c # "NUL")

\* str.replace("\r", "\n")
ReplaceCR(s) == [i \in 1..Len(s) |-> IF s[i] = "CR" THEN "LF" ELSE s[i]]

\* clean_content of apply_overlay
CleanContent(system_content) == ReplaceCR(ReplaceCRLF(StripNul(system_content)))

\* _hash_content: SHA-256 is taken to be collision free on the contents used
HashContent(content) == <<"sha256", content>>

\* SessionOverlayState()
NewState(t) ==
    [overlay_hash |-> NoHash, block_id |-> NoBlock,
     fallback_applied |-> FALSE, last_updated |-> t]

\* ------------------------------------------------- SessionOverlayStore

\* position of session_id in the OrderedDict, 0 when absent
StoreIndex(store, session_id) ==
    IF \E i \in 1..Len(store) : store[i].sid = session_id
    THEN CHOOSE i \in 1..Len(store) : store[i].sid = session_id
    ELSE 0

StoreRemove(store, session_id) ==
    SelectSeq(store, LAMBDA e : e.sid # session_id)

\* (as StoreGet, when no stored state is ever found)
StoreGetMiss(store, session_id, t) ==
    [found |-> FALSE, st |-> NewState(t), store |-> store]

\* (as StoreGet, without the move_to_end)
StoreGetInPlace(store, session_id, t) ==
    LET i == StoreIndex(store, session_id) IN
    IF i = 0 THEN [found |-> FALSE, st |-> NewState(t), store |-> store]
    ELSE IF t - store[i].st.last_updated > TtlSeconds
         THEN [found |-> FALSE, st |-> NewState(t),
               store |-> StoreRemove(store, session_id)]
         ELSE [found |-> TRUE, st |-> store[i].st, store |-> store]

\* SessionOverlayStore.get: expire on access, else move_to_end
StoreGet(store, session_id, t) ==
    LET i == StoreIndex(store, session_id) IN
    IF i = 0 THEN [found |-> FALSE, st |-> NewState(t), store |-> store]
    ELSE IF t - store[i].st.last_updated > TtlSeconds
         THEN [found |-> FALSE, st |-> NewState(t),
               store |-> StoreRemove(store, session_id)]
         ELSE [found |-> TRUE, st |-> store[i].st,
               store |-> Append(StoreRemove(store, session_id), store[i])]

\* (as PopOldest, without the eviction)
PopOldestNever(store) == store

RECURSIVE PopOldest(_)
\* while len(self._store) > self._max_sessions: popitem(last=False)
PopOldest(store) ==
    IF Len(store) > max_sessions THEN PopOldest(Tail(store)) ELSE store

\* (as StoreSet, without the stamp)
StoreSetUnstamped(store, session_id, st, t) ==
    PopOldest(Append(StoreRemove(store, session_id), [sid |-> session_id, st |-> st]))

\* (as StoreSet, when the state is not written back)
StoreSetNotPersisted(store, session_id, st, t) == store

\* SessionOverlayStore.set: stamp, store, move_to_end, evict the oldest
StoreSet(store, session_id, st, t) ==
    PopOldest(Append(StoreRemove(store, session_id),
                     [sid |-> session_id, st |-> [st EXCEPT !.last_updated = t]]))

\* ------------------------------------------------------ backend (Letta)

\* one backend call, as the client issues it
Call(op, agent, block, value) ==
    [op |-> op, agent |-> agent, block |-> block, value |-> value]

\* which backend call of an apply_overlay raises, if it is issued
\* ("create_kw": create() does not take limit/read_only and raises TypeError
\* "unexpected keyword argument"; the call is repeated without them and succeeds;
\* "create_kw_fail": the repeated call raises)
FailPoints ==
    {"none", "modify", "list", "create", "create_kw", "create_kw_fail", "noid", "attach"}

\* (as BlocksModify, when the value sent is not stored)
BlocksModifyLabelOnly(blks, block_id, value) ==
    [blks EXCEPT ![block_id] = [@ EXCEPT !.label = OVERLAY_LABEL]]

\* client.blocks.modify(block_id, value=..., label=OVERLAY_LABEL)
BlocksModify(blks, block_id, value) ==
    [blks EXCEPT ![block_id] = [@ EXCEPT !.value = value, !.label = OVERLAY_LABEL]]

\* client.blocks.create(value=..., label=OVERLAY_LABEL, metadata=..., [limit, read_only])
\* (made_for: the agent whose apply_overlay call created the block)
BlocksCreate(blks, value, agent_id) ==
    Append(blks, [value |-> value, label |-> OVERLAY_LABEL, made_for |-> agent_id])

\* (as FindOverlayBlock, when the lookup by label finds nothing)
FindOverlayBlockNever(blks, attached) == NoBlock

\* for block in existing_blocks: if block.label == OVERLAY_LABEL: break
FindOverlayBlock(blks, attached) ==
    LET hits == {i \in 1..Len(attached) : blks[attached[i]].label = OVERLAY_LABEL} IN
    IF hits = {} THEN NoBlock
    ELSE attached[CHOOSE i \in hits : \A j \in hits : i <= j]

\* ------------------------------------------- ProxyOverlayManager.apply_overlay

\* (as SkipReconcile, with the test of the block turned round)
SkipReconcileNoBlock(state, overlay_hash) ==
    state.overlay_hash = overlay_hash /\ state.block_id = NoBlock

\* (as SkipReconcile, without the comparison of the hashes)
SkipReconcileAnyHash(state, overlay_hash) == state.block_id # NoBlock

\* the early return: the right hash AND a valid block
SkipReconcile(state, overlay_hash) ==
    state.overlay_hash = overlay_hash /\ state.block_id # NoBlock

\* branch (a): the session knows its block
ReconcileKnown(state, blks, ablks, clean, fail) ==
    LET c == Call("modify", "", state.block_id, clean) IN
    IF fail = "modify"
    THEN [ok |-> FALSE, block_id |-> state.block_id, blocks |-> blks,
          agent_blocks |-> ablks, calls |-> <<c>>, raised |-> TRUE]
    ELSE [ok |-> TRUE, block_id |-> state.block_id,
          blocks |-> BlocksModify(blks, state.block_id, clean),
          agent_blocks |-> ablks, calls |-> <<c>>, raised |-> FALSE]

\* (as ReconcileAdopt, when the id of the block found is not kept)
ReconcileAdoptNoId(state, blks, ablks, clean, fail, found, pre) ==
    LET c == Call("modify", "", found, clean) IN
    IF fail = "modify"
    THEN [ok |-> FALSE, block_id |-> state.block_id, blocks |-> blks,
          agent_blocks |-> ablks, calls |-> Append(pre, c), raised |-> TRUE]
    ELSE [ok |-> TRUE, block_id |-> state.block_id,
          blocks |-> BlocksModify(blks, found, clean),
          agent_blocks |-> ablks, calls |-> Append(pre, c), raised |-> FALSE]

\* branch (b): a block with the overlay label is attached to the agent
ReconcileAdopt(state, blks, ablks, clean, fail, found, pre) ==
    LET c == Call("modify", "", found, clean) IN
    IF fail = "modify"
    THEN [ok |-> FALSE, block_id |-> state.block_id, blocks |-> blks,
          agent_blocks |-> ablks, calls |-> Append(pre, c), raised |-> TRUE]
    ELSE [ok |-> TRUE, block_id |-> found,
          blocks |-> BlocksModify(blks, found, clean),
          agent_blocks |-> ablks, calls |-> Append(pre, c), raised |-> FALSE]

\* (as ReconcileCreate, when the id is kept before the attach)
ReconcileCreateIdFirst(state, blks, ablks, agent_id, clean, fail, pre) ==
    LET first == Call("create", agent_id, NoBlock, clean)
        again == Call("create_plain", agent_id, NoBlock, clean)
        tried == IF fail \in {"create_kw", "create_kw_fail"}
                 THEN pre \o <<first, again>> ELSE Append(pre, first)
        id == Len(blks) + 1
        made == BlocksCreate(blks, clean, agent_id)
        att == Call("attach", agent_id, id, <<>>)
    IN
    IF fail \in {"create", "create_kw_fail"}
    THEN [ok |-> FALSE, block_id |-> state.block_id, blocks |-> blks,
          agent_blocks |-> ablks, calls |-> tried, raised |-> TRUE]
    ELSE IF fail = "noid"
    \* the block that came back has no id: RuntimeError, nothing to attach
    THEN [ok |-> FALSE, block_id |-> state.block_id, blocks |-> blks,
          agent_blocks |-> ablks, calls |-> tried, raised |-> TRUE]
    ELSE IF fail = "attach"
    \* the block exists on the backend and stays there, unattached
    THEN [ok |-> FALSE, block_id |-> id, blocks |-> made,
          agent_blocks |-> ablks, calls |-> Append(tried, att), raised |-> TRUE]
    ELSE [ok |-> TRUE, block_id |-> id, blocks |-> made,
          agent_blocks |-> [ablks EXCEPT ![agent_id] = Append(@, id)],
          calls |-> Append(tried, att), raised |-> fail = "create_kw"]

\* branch (c): create a block sized to the content and read-only, and attach it
ReconcileCreate(state, blks, ablks, agent_id, clean, fail, pre) ==
    LET first == Call("create", agent_id, NoBlock, clean)
        again == Call("create_plain", agent_id, NoBlock, clean)
        tried == IF fail \in {"create_kw", "create_kw_fail"}
                 THEN pre \o <<first, again>> ELSE Append(pre, first)
        id == Len(blks) + 1
        made == BlocksCreate(blks, clean, agent_id)
        att == Call("attach", agent_id, id, <<>>)
    IN
    IF fail \in {"create", "create_kw_fail"}
    THEN [ok |-> FALSE, block_id |-> state.block_id, blocks |-> blks,
          agent_blocks |-> ablks, calls |-> tried, raised |-> TRUE]
    ELSE IF fail = "noid"
    \* the block that came back has no id: RuntimeError, nothing to attach
    THEN [ok |-> FALSE, block_id |-> state.block_id, blocks |-> blks,
          agent_blocks |-> ablks, calls |-> tried, raised |-> TRUE]
    ELSE IF fail = "attach"
    \* the block exists on the backend and stays there, unattached
    THEN [ok |-> FALSE, block_id |-> state.block_id, blocks |-> made,
          agent_blocks |-> ablks, calls |-> Append(tried, att), raised |-> TRUE]
    ELSE [ok |-> TRUE, block_id |-> id, blocks |-> made,
          agent_blocks |-> [ablks EXCEPT ![agent_id] = Append(@, id)],
          calls |-> Append(tried, att), raised |-> fail = "create_kw"]

\* the try block of apply_overlay
Reconcile(state, blks, ablks, agent_id, clean, fail) ==
    IF state.block_id # NoBlock
    THEN ReconcileKnown(state, blks, ablks, clean, fail)
    ELSE LET lst == <<Call("list", agent_id, NoBlock, <<>>)>> IN
         IF fail = "list"
         THEN [ok |-> FALSE, block_id |-> state.block_id, blocks |-> blks,
               agent_blocks |-> ablks, calls |-> lst, raised |-> TRUE]
         ELSE LET found == FindOverlayBlock(blks, ablks[agent_id]) IN
              IF found # NoBlock
              THEN ReconcileAdopt(state, blks, ablks, clean, fail, found, lst)
              ELSE ReconcileCreate(state, blks, ablks, agent_id, clean, fail, lst)

\* MessageCreate(role="user", content=[TextContent(text=f"[Proxy System Overlay]: {clean}")])
FallbackMessage(clean) ==
    [role |-> "user", text |-> <<"[Proxy System Overlay]: ">> \o clean,
     tool_call_id |-> ""]

\* (as FallbackFor, without the test of fallback_applied)
FallbackForAlways(state, clean) == <<FallbackMessage(clean)>>

\* the except branch: at most one fallback per fallback_applied episode
FallbackFor(state, clean) ==
    IF ~state.fallback_applied THEN <<FallbackMessage(clean)>> ELSE <<>>

\* (as FailedState, when the hash is recorded on success only)
FailedStateNoHash(state, overlay_hash) == [state EXCEPT !.fallback_applied = TRUE]

\* the state the except branch leaves: fallback_applied set, the hash recorded
FailedState(state, overlay_hash) ==
    [state EXCEPT !.fallback_applied = TRUE, !.overlay_hash = overlay_hash]

\* the entry kept for the session, expired or not, records an update of the
\* session's block with this content that failed (the except branch ran with
\* block_id set)
UpdateUnapplied(store, session_id, overlay_hash) ==
    LET i == StoreIndex(store, session_id) IN
    /\ i # 0
    /\ store[i].st.block_id # NoBlock
    /\ store[i].st.fallback_applied
    /\ store[i].st.overlay_hash = overlay_hash

\* apply_overlay, whole: what it returns, what it leaves in the store and on the
\* backend, and the backend calls it issued
ApplyOverlay(store, blks, ablks, t, agent_id, session_id, system_content, fail) ==
    LET g == StoreGet(store, session_id, t)
        state == g.st
        clean == CleanContent(system_content)
        overlay_hash == HashContent(clean)
        base == [agent |-> agent_id, session |-> session_id, content |-> system_content,
                 found |-> g.found,
                 unapplied |-> UpdateUnapplied(store, session_id, overlay_hash)]
    IN
    IF system_content = <<>> \/ SkipReconcile(state, overlay_hash)
    THEN [store |-> StoreSet(g.store, session_id, state, t),
          blocks |-> blks, agent_blocks |-> ablks,
          changed |-> FALSE, fallback |-> <<>>, calls |-> <<>>, fail |-> "none",
          skipped |-> system_content # <<>>, block_id |-> state.block_id, call |-> base]
    ELSE LET r == Reconcile(state, blks, ablks, agent_id, clean, fail)
             post == IF r.ok
                     THEN [state EXCEPT !.block_id = r.block_id,
                                        !.overlay_hash = overlay_hash,
                                        !.fallback_applied = FALSE]
                     ELSE FailedState([state EXCEPT !.block_id = r.block_id],
                                      overlay_hash)
         IN [store |-> StoreSet(g.store, session_id, post, t),
             blocks |-> r.blocks, agent_blocks |-> r.agent_blocks,
             changed |-> r.ok,
             fallback |-> IF r.ok THEN <<>> ELSE FallbackFor(state, clean),
             calls |-> r.calls, fail |-> IF r.raised THEN fail ELSE "none",
             skipped |-> FALSE, block_id |-> post.block_id, call |-> base]

\* -------------------------------------------------------------- actions

\* the observation of one completed apply_overlay call; seq tells a call from
\* the one before it (0: none yet, then 1 and 2 in turn)
OverlayRecord(r, before) ==
    [seq |-> IF before.seq = 1 THEN 2 ELSE 1,
     agent |-> r.call.agent, session |-> r.call.session, content |-> r.call.content,
     found |-> r.call.found, unapplied |-> r.call.unapplied, block_id |-> r.block_id,
     changed |-> r.changed, fallback |-> r.fallback, calls |-> r.calls,
     fail |-> r.fail, skipped |-> r.skipped]

NoOverlayCall ==
    [seq |-> 0, agent |-> "", session |-> <<>>, content |-> <<>>, found |-> FALSE,
     unapplied |-> FALSE, block_id |-> NoBlock,
     changed |-> FALSE, fallback |-> <<>>, calls |-> <<>>,
     fail |-> "none", skipped |-> FALSE]

OverlayStart ==
    /\ now = 0
    /\ session_store = <<>>
    \* every agent starts with a core-memory block that is not the overlay
    /\ blocks = << [value |-> <<"p">>, label |-> "persona", made_for |-> ""] >>
    /\ agent_blocks = [a \in Agents |-> <<1>>]
    /\ last_overlay = NoOverlayCall
    /\ faulted = FALSE

\* the failure points on the path a call takes (the others change nothing)
FailChoices(store, blks, ablks, t, agent_id, session_id, system_content) ==
    LET state == StoreGet(store, session_id, t).st IN
    IF system_content = <<>>
       \/ SkipReconcile(state, HashContent(CleanContent(system_content)))
    THEN {"none"}
    ELSE IF state.block_id # NoBlock THEN {"none", "modify"}
    ELSE IF FindOverlayBlock(blks, ablks[agent_id]) # NoBlock
    THEN {"none", "list", "modify"}
    ELSE FailPoints \ {"modify"}

\* one await overlay_manager.apply_overlay(...), run to completion
ApplyOverlayCall ==
    \E a \in OverlayAgents, s \in Sessions, c \in RawContents :
    \E fail \in FailChoices(session_store, blocks, agent_blocks, now, a, s, c) :
        \E r \in {ApplyOverlay(session_store, blocks, agent_blocks, now, a, s, c, fail)} :
        /\ Len(r.blocks) <= MaxBlocks
        /\ session_store' = r.store
        /\ blocks' = r.blocks
        /\ agent_blocks' = r.agent_blocks
        /\ last_overlay' = OverlayRecord(r, last_overlay)
        /\ faulted' = (faulted \/ r.fail # "none")
        /\ now' = now
        /\ UNCHANGED <<sync_vars, batch_vars, chat_vars, store_vars, race_vars>>

\* time passes
Tick ==
    /\ now < MaxTime
    /\ now' = now + 1
    /\ UNCHANGED <<session_store, blocks, agent_blocks, last_overlay, faulted>>
    /\ UNCHANGED <<sync_vars, batch_vars, chat_vars, store_vars, race_vars>>

\* ------------------------------------------ ProxyToolBridge.sync_agent_tools

\* tool names are token sequences, so that the prefix can be put on and tested
ToolNames == { <<"A">>, <<"B">> }
Prefixed(name) == <<"proxy_">> \o name
\* name.startswith("proxy_")
IsProxy(name) == Len(name) >= 1 /\ name[1] = "proxy_"
BuiltinTools == { <<"builtin_X">> }

\* the id the backend gives the tool of a name: names are unique in the registry
\* (upsert), so the id is a function of the name
ToolId(name) == <<"tool-">> \o name

\* the tools arrays a request carries; <<>> stands for [] and for None
MaxTools == 2
ToolLists == UNION { [1..n -> ToolNames] : n \in 0..MaxTools }

\* dict[key] = value
DictSet(d, key, value) ==
    [k \in DOMAIN d \cup {key} |-> IF k = key THEN value ELSE d[k]]
\* the dict with the keys of keys only
DictKeep(d, keys) == [k \in keys |-> d[k]]
EmptyDict == [k \in {} |-> <<>>]

\* (as RemoveToolFromMappings, when only the id -> name mapping is cleaned)
RemoveToolFromIdMapping(acc, tool_id) ==
    [acc EXCEPT !.lnm = DictKeep(acc.lnm, DOMAIN acc.lnm \ {tool_id})]

\* _remove_tool_from_mappings
RemoveToolFromMappings(acc, tool_id) ==
    [acc EXCEPT
        !.tm = DictKeep(acc.tm, {n \in DOMAIN acc.tm : acc.tm[n] # tool_id}),
        !.lnm = DictKeep(acc.lnm, DOMAIN acc.lnm \ {tool_id})]

\* get_proxy_tool_name: the first OpenAI name mapped to the id, <<>> for None
\* (the names mapped to one id: the dict is scanned in insertion order)
NamesOfToolId(tm, tool_id) == {n \in DOMAIN tm : tm[n] = tool_id}
GetProxyToolName(tm, tool_id) ==
    IF NamesOfToolId(tm, tool_id) = {} THEN <<>>
    ELSE CHOOSE n \in NamesOfToolId(tm, tool_id) : TRUE

\* one backend call of a sync: acc.k counts down to the call that raises
\* (0: none does); once a call has raised the coroutine is gone
Issue(acc, call) ==
    IF acc.raised THEN acc
    ELSE IF acc.k = 1
    THEN [acc EXCEPT !.raised = TRUE, !.calls = Append(@, call), !.k = 0]
    ELSE [acc EXCEPT !.calls = Append(@, call), !.k = IF @ = 0 THEN 0 ELSE @ - 1]

\* for tool_name in to_remove: detach, then drop it from the mappings
RECURSIVE DetachAll(_, _, _)
DetachAll(acc, agent_id, order) ==
    IF order = <<>> \/ acc.raised THEN acc
    ELSE LET name == Head(order)
             a1 == Issue(acc, Call("detach", agent_id, 0, name))
             a2 == IF a1.raised THEN a1
                   ELSE RemoveToolFromMappings(
                            [a1 EXCEPT !.att = @ \ {name}], ToolId(name))
         IN DetachAll(a2, agent_id, Tail(order))

\* _create_proxy_tool (tools.upsert under the prefixed name), attach, map
AddOne(acc, agent_id, name) ==
    LET a1 == Issue(acc, Call("upsert", "", 0, Prefixed(name)))
        a2 == IF a1.raised THEN a1
              ELSE Issue([a1 EXCEPT !.reg = @ \cup {Prefixed(name)}],
                         Call("attach", agent_id, 0, Prefixed(name)))
    IN IF a2.raised THEN a2
       ELSE [a2 EXCEPT !.att = @ \cup {Prefixed(name)},
                       !.tm = DictSet(@, name, ToolId(Prefixed(name))),
                       !.lnm = DictSet(@, ToolId(Prefixed(name)), Prefixed(name))]

\* for openai_tool in openai_tools: if prefixed in to_add_names: ...
RECURSIVE AddAll(_, _, _, _)
AddAll(acc, agent_id, openai_tools, to_add_names) ==
    IF openai_tools = <<>> \/ acc.raised THEN acc
    ELSE LET name == Head(openai_tools)
             a1 == IF Prefixed(name) \in to_add_names
                   THEN AddOne(acc, agent_id, name) ELSE acc
         IN AddAll(a1, agent_id, Tail(openai_tools), to_add_names)

\* for openai_tool in openai_tools: map the ones that were already attached
RECURSIVE MapExisting(_, _, _)
MapExisting(acc, openai_tools, current_tool_names) ==
    IF openai_tools = <<>> THEN acc
    ELSE LET name == Head(openai_tools)
             a1 == IF Prefixed(name) \in current_tool_names
                   THEN [acc EXCEPT
                            !.tm = DictSet(@, name, ToolId(Prefixed(name))),
                            !.lnm = DictSet(@, ToolId(Prefixed(name)), Prefixed(name))]
                   ELSE acc
         IN MapExisting(a1, Tail(openai_tools), current_tool_names)

\* requested_letta_names
RequestedLettaNames(openai_tools) ==
    {Prefixed(openai_tools[i]) : i \in 1..Len(openai_tools)}

\* (as ToRemove, without the test of the prefix)
ToRemoveAnyName(current_tool_names, requested) ==
    {n \in current_tool_names : n \notin requested}

\* to_remove: our proxy_ tools that are not requested
ToRemove(current_tool_names, requested) ==
    {n \in current_tool_names : IsProxy(n) /\ n \notin requested}

\* (as ToAddNames, without the difference)
ToAddNamesAll(requested, current_tool_names) == requested

\* to_add_names: requested but not present
ToAddNames(requested, current_tool_names) == requested \ current_tool_names

\* sync_agent_tools, whole.  order: the order in which the set to_remove is
\* iterated; fail_at: the backend call that raises (0: none)
SyncAgentTools(att, reg, tm, lnm, agent_id, openai_tools, order, fail_at) ==
    LET start == [att |-> att, reg |-> reg, tm |-> tm, lnm |-> lnm,
                  calls |-> <<>>, raised |-> FALSE, k |-> fail_at]
        listed == Issue(start, Call("list_tools", agent_id, 0, <<>>))
        requested == RequestedLettaNames(openai_tools)
        removed == DetachAll(listed, agent_id, order)
    IN
    IF removed.raised THEN removed
    ELSE IF openai_tools = <<>>
    THEN [removed EXCEPT !.tm = EmptyDict, !.lnm = EmptyDict]
    ELSE LET added == AddAll(removed, agent_id, openai_tools, ToAddNames(requested, att)) IN
         IF added.raised THEN added
         ELSE MapExisting(added, openai_tools, att)

\* the orders a set can be iterated in
Orders(S) ==
    {o \in [1..Cardinality(S) -> S] : \A i, j \in 1..Cardinality(S) : o[i] = o[j] => i = j}

\* no batch has been composed
NotComposed == << [role |-> "", text |-> <<>>, tool_call_id |-> "not composed"] >>

BatchStart ==
    /\ batch_in = [fallback |-> <<>>, tool_results |-> <<>>, messages |-> <<>>]
    /\ batch_out = NotComposed

\* startup_event with a successful agents.list(): the map is filled, the
\* overlay manager and the bridge exist
AgentMapFull == [m \in {"alpha", "beta"} |-> IF m = "alpha" THEN "agent-1" ELSE "agent-2"]

NoChat ==
    [seq |-> 0, model |-> "", agent |-> "", tools |-> <<>>, stream |-> FALSE,
     status |-> 0, session |-> <<>>, fallback |-> <<>>, n_messages |-> 0,
     outbound |-> <<>>, sync_raised |-> FALSE, sent |-> FALSE, frames |-> <<>>,
     finish_reason |-> "", stream_raised |-> FALSE, steps |-> <<>>,
     content |-> <<>>, usage |-> "", system |-> <<>>, changed |-> FALSE]

ChatStart ==
    /\ agent_map = AgentMapFull
    /\ bridge_ready = TRUE
    /\ derived_sessions = <<>>
    /\ last_chat = NoChat

\* the keys the cache operations are tried on, and "never" for a time
CacheKeys == { <<"k1">>, <<"k2">>, <<"k3">> }
Never == 0 - 1

NoTouch ==
    [recency |-> <<>>, set_at |-> [k \in CacheKeys |-> Never],
     used_at |-> [k \in CacheKeys |-> Never]]

NoStoreOp == [seq |-> 0, cache |-> "none", op |-> "none", key |-> <<>>, hit |-> FALSE]

\* ProxyOverlayManager(client, max_sessions=MaxSessions, ttl_seconds=TtlSeconds)
\* two requests served by the one event loop
Tasks == {1, 2}

\* a coroutine that has not begun
IdleTask ==
    [pc |-> "idle", session |-> <<>>, content |-> <<>>, shared |-> FALSE,
     st |-> NewState(0), target |-> NoBlock, changed |-> FALSE, fallback |-> <<>>,
     cached |-> FALSE, raised |-> FALSE]

NoDerive == [seq |-> 0, agent |-> "", content |-> <<>>, header |-> <<>>, session_id |-> <<>>]

StoreStart ==
    /\ max_sessions = MaxSessions
    /\ touch = NoTouch
    /\ last_store = NoStoreOp
    /\ last_derive = NoDerive
    /\ tasks = [p \in Tasks |-> IdleTask]
    /\ overlapped = FALSE

NoSyncCall ==
    [seq |-> 0, agent |-> "", tools |-> <<>>, before |-> {}, calls |-> <<>>,
     raised |-> FALSE]

SyncStart ==
    /\ tool_registry = {}
    /\ tool_mapping = EmptyDict
    /\ letta_name_mapping = EmptyDict
    /\ last_sync = NoSyncCall

\* a fresh bridge; the agents carry whatever an earlier process left attached
InitSync ==
    /\ OverlayStart
    /\ SyncStart
    /\ BatchStart
    /\ ChatStart
    /\ StoreStart
    /\ agent_tools \in [Agents -> {BuiltinTools \cup P : P \in SUBSET {Prefixed(n) : n \in ToolNames}}]

\* one await proxy_bridge.sync_agent_tools(agent_id, openai_tools), run until it
\* returns or raises
SyncCall ==
    \E a \in Agents, T \in ToolLists :
    \E order \in Orders(ToRemove(agent_tools[a], RequestedLettaNames(T))) :
    \E clean \in {SyncAgentTools(agent_tools[a], tool_registry, tool_mapping,
                                 letta_name_mapping, a, T, order, 0)} :
    \E fail_at \in 0..Len(clean.calls) :
    \E r \in {SyncAgentTools(agent_tools[a], tool_registry, tool_mapping,
                             letta_name_mapping, a, T, order, fail_at)} :
        /\ agent_tools' = [agent_tools EXCEPT ![a] = r.att]
        /\ tool_registry' = r.reg
        /\ tool_mapping' = r.tm
        /\ letta_name_mapping' = r.lnm
        /\ last_sync' = [seq |-> IF last_sync.seq = 1 THEN 2 ELSE 1,
                         agent |-> a, tools |-> T, before |-> agent_tools[a],
                         calls |-> r.calls, raised |-> r.raised]
        /\ UNCHANGED <<overlay_vars, batch_vars, chat_vars, store_vars, race_vars>>

NextSync == SyncCall

SpecSync == InitSync /\ [][NextSync]_vars

\* ------------------------------------ main.py: the outbound message batch

\* message content: None, a string, or a list of blocks; a block is a
\* {"type": "text", "text": ...} dict, a dict with a string "content", a bare
\* string, or something else (an image, say)
ContentNone == [kind |-> "none", parts |-> <<>>]
ContentStr(text) == [kind |-> "str", parts |-> << [type |-> "str", text |-> text] >>]
ContentList(parts) == [kind |-> "list", parts |-> parts]
TextBlock(text) == [type |-> "text", text |-> text]
OtherBlock == [type |-> "other", text |-> <<>>]

RECURSIVE JoinParts(_)
\* "".join(parts) over the blocks that yield text
JoinParts(parts) ==
    IF parts = <<>> THEN <<>>
    ELSE (IF Head(parts).type \in {"text", "content", "str"}
          THEN Head(parts).text ELSE <<>>) \o JoinParts(Tail(parts))

\* _normalize_content
NormalizeContent(content) ==
    IF content.kind = "none" THEN <<>> ELSE JoinParts(content.parts)

\* one entry of body.messages
Msg(role, content, tool_call_id) ==
    [role |-> role, content |-> content, tool_call_id |-> tool_call_id]

\* MessageCreate(role=..., content=[TextContent(text=...)], tool_call_id=...)
MessageCreate(role, text, tool_call_id) ==
    [role |-> role, text |-> text, tool_call_id |-> tool_call_id]

RECURSIVE JoinChunks(_)
\* "\n\n".join(filtered)
JoinChunks(chunks) ==
    IF chunks = <<>> THEN <<>>
    ELSE IF Len(chunks) = 1 THEN chunks[1]
    ELSE chunks[1] \o <<"LF", "LF">> \o JoinChunks(Tail(chunks))

\* _collect_system_content; <<>> stands for None
CollectSystemContent(messages) ==
    LET sys == SelectSeq(messages, LAMBDA m : m.role = "system")
        chunks == [i \in 1..Len(sys) |-> NormalizeContent(sys[i].content)]
    IN JoinChunks(SelectSeq(chunks, LAMBDA c : c # <<>>))

\* (as LastIndexOf, from the front)
FirstIndexOf(messages, role) ==
    IF \E i \in 1..Len(messages) : messages[i].role = role
    THEN CHOOSE i \in 1..Len(messages) :
            /\ messages[i].role = role
            /\ \A j \in 1..Len(messages) : messages[j].role = role => j >= i
    ELSE 0

\* index of the last message of a role, 0 when there is none
LastIndexOf(messages, role) ==
    IF \E i \in 1..Len(messages) : messages[i].role = role
    THEN CHOOSE i \in 1..Len(messages) :
            /\ messages[i].role = role
            /\ \A j \in 1..Len(messages) : messages[j].role = role => j <= i
    ELSE 0

\* _extract_latest_user_message, as the list user_messages_to_send
UserMessagesToSend(messages) ==
    LET i == LastIndexOf(messages, "user") IN
    IF i = 0 THEN <<>>
    ELSE << MessageCreate("user", NormalizeContent(messages[i].content), "") >>

\* _extract_trailing_tool_messages: the tool messages after the last assistant one
TrailingToolMessages(messages) ==
    LET a == LastIndexOf(messages, "assistant") IN
    SelectSeq(SubSeq(messages, a + 1, Len(messages)), LAMBDA m : m.role = "tool")

\* json.dumps of a string payload
JsonDumps(payload) == <<"\"">> \o payload \o <<"\"">>

\* for tool_result in body.tool_results: ...
RECURSIVE ExplicitToolReturns(_)
ExplicitToolReturns(tool_results) ==
    IF tool_results = <<>> THEN <<>>
    ELSE << MessageCreate("tool", JsonDumps(Head(tool_results).result),
                          Head(tool_results).tool_call_id) >>
         \o ExplicitToolReturns(Tail(tool_results))

\* for tool_msg in trailing: skip the ids seen, append, remember the id
RECURSIVE TrailingToolReturns(_, _)
TrailingToolReturns(trailing, seen) ==
    IF trailing = <<>> THEN <<>>
    ELSE LET id == Head(trailing).tool_call_id IN
         IF id # "" /\ id \in seen
         THEN TrailingToolReturns(Tail(trailing), seen)
         ELSE << MessageCreate("tool", NormalizeContent(Head(trailing).content), id) >>
              \o TrailingToolReturns(Tail(trailing),
                                     IF id # "" THEN seen \cup {id} ELSE seen)

\* outbound_messages of chat_completions
OutboundMessages(fallback_messages, tool_results, messages) ==
    LET seen == {tool_results[i].tool_call_id : i \in 1..Len(tool_results)} IN
    fallback_messages
    \o ExplicitToolReturns(tool_results)
    \o TrailingToolReturns(TrailingToolMessages(messages), seen)
    \o UserMessagesToSend(messages)

\* -- the inputs the batch is composed from

MaxMessages == 3
MaxToolResults == 2

BatchMessages ==
    { Msg("user", ContentStr(<<"First">>), ""),
      Msg("user", ContentList(<< TextBlock(<<"Second">>), OtherBlock,
                                 [type |-> "str", text |-> <<" line">>] >>), ""),
      Msg("assistant", ContentStr(<<"Ack">>), ""),
      Msg("tool", ContentStr(<<"one">>), "call_1"),
      Msg("tool", ContentStr(<<"two">>), "call_2"),
      Msg("tool", ContentNone, "") }

BatchTranscripts == UNION { [1..n -> BatchMessages] : n \in 0..MaxMessages }

ToolResult(id) == [tool_call_id |-> id, result |-> <<"r", id>>]
BatchToolResults ==
    UNION { [1..n -> {ToolResult("call_1"), ToolResult("call_2")}] : n \in 0..MaxToolResults }

BatchFallbacks == { <<>>, <<FallbackMessage(<<"x", "LF">>)>> }

InitBatch ==
    /\ OverlayStart
    /\ SyncStart
    /\ ChatStart
    /\ StoreStart
    /\ agent_tools = [a \in Agents |-> BuiltinTools]
    /\ batch_in \in [fallback : BatchFallbacks, tool_results : BatchToolResults,
                     messages : BatchTranscripts]
    /\ batch_out = NotComposed

\* lines 394-433 of chat_completions on the inputs drawn
ComposeBatch ==
    /\ batch_out = NotComposed
    /\ batch_out' = OutboundMessages(batch_in.fallback, batch_in.tool_results,
                                     batch_in.messages)
    /\ UNCHANGED <<batch_in, overlay_vars, sync_vars, chat_vars, store_vars, race_vars>>

NextBatch == ComposeBatch

SpecBatch == InitBatch /\ [][NextBatch]_vars

\* ------------------------------------- _TTLCache and derive_session_id

\* (as TTLCacheGet, with an entry of age ttl_seconds taken to be expired)
TTLCacheGetEager(cache, key, t) ==
    LET hits == {i \in 1..Len(cache) : cache[i].key = key}
        rest == SelectSeq(cache, LAMBDA e : e.key # key)
    IN
    IF hits = {} THEN [value |-> <<>>, cache |-> cache]
    ELSE LET e == cache[CHOOSE i \in hits : TRUE] IN
         IF t - e.ts >= TtlSeconds
         THEN [value |-> <<>>, cache |-> rest]
         ELSE [value |-> e.value, cache |-> Append(rest, [e EXCEPT !.ts = t])]

\* _TTLCache.get: nothing for a missing or an expired entry (which is deleted),
\* else the entry is stamped and moved to the end; <<>> stands for None
TTLCacheGet(cache, key, t) ==
    LET hits == {i \in 1..Len(cache) : cache[i].key = key}
        rest == SelectSeq(cache, LAMBDA e : e.key # key)
    IN
    IF hits = {} THEN [value |-> <<>>, cache |-> cache]
    ELSE LET e == cache[CHOOSE i \in hits : TRUE] IN
         IF t - e.ts > TtlSeconds
         THEN [value |-> <<>>, cache |-> rest]
         ELSE [value |-> e.value, cache |-> Append(rest, [e EXCEPT !.ts = t])]

RECURSIVE TTLCacheEvict(_)
\* while len(self._store) > self._max_entries: popitem(last=False)
TTLCacheEvict(cache) ==
    IF Len(cache) > max_sessions THEN TTLCacheEvict(Tail(cache)) ELSE cache

\* _TTLCache.set
TTLCacheSet(cache, key, value, t) ==
    TTLCacheEvict(Append(SelectSeq(cache, LAMBDA e : e.key # key),
                         [key |-> key, ts |-> t, value |-> value]))

\* f"{agent_id}:{content_hash}" and f"{agent_id}:default"
DerivedKey(agent_id, system_content) ==
    IF system_content # <<>>
    THEN <<agent_id, HashContent(system_content)>>
    ELSE <<agent_id, <<"default">>>>

\* (as DeriveSessionId, when the header is not looked at)
DeriveSessionIdNoHeader(cache, t, agent_id, system_content, header_id) ==
    LET key == DerivedKey(agent_id, system_content)
        g == TTLCacheGet(cache, key, t)
    IN IF g.value # <<>>
       THEN [session_id |-> g.value, cache |-> g.cache]
       ELSE [session_id |-> key, cache |-> TTLCacheSet(g.cache, key, key, t)]

\* derive_session_id: the header's id, else the key derived from the agent and
\* the content as collected (cached under itself); header_id <<>>: no such header
DeriveSessionId(cache, t, agent_id, system_content, header_id) ==
    IF header_id # <<>> THEN [session_id |-> header_id, cache |-> cache]
    ELSE LET key == DerivedKey(agent_id, system_content)
             g == TTLCacheGet(cache, key, t)
         IN IF g.value # <<>>
            THEN [session_id |-> g.value, cache |-> g.cache]
            ELSE [session_id |-> key, cache |-> TTLCacheSet(g.cache, key, key, t)]

\* ------------------------------------- the two caches, operation by operation

\* SessionOverlayStore.items: the entries still valid, the others deleted
StoreItems(store, t) ==
    LET valid == SelectSeq(store, LAMBDA e : t - e.st.last_updated <= TtlSeconds) IN
    [items |-> [i \in 1..Len(valid) |-> <<valid[i].sid, valid[i].st>>], store |-> valid]

\* _TTLCache.items
TTLCacheItems(cache, t) ==
    LET valid == SelectSeq(cache, LAMBDA e : t - e.ts <= TtlSeconds) IN
    [items |-> [i \in 1..Len(valid) |-> <<valid[i].key, valid[i].value>>], cache |-> valid]

\* capacity of the caches whose operations are followed one by one
MaxEntries == 2

\* the keys held by the cache that is exercised
StoredKeys ==
    IF last_store.cache = "store"
    THEN {session_store[i].sid : i \in 1..Len(session_store)}
    ELSE {derived_sessions[i].key : i \in 1..Len(derived_sessions)}

\* the record of a set, and of a get that returned the entry
TouchSet(key) ==
    [recency |-> Append(SelectSeq(touch.recency, LAMBDA k : k # key), key),
     set_at |-> [touch.set_at EXCEPT ![key] = now],
     used_at |-> [touch.used_at EXCEPT ![key] = now]]

TouchGet(key, hit) ==
    IF hit
    THEN [touch EXCEPT !.recency = Append(SelectSeq(@, LAMBDA k : k # key), key),
                       !.used_at[key] = now]
    ELSE touch

StoreOp(op, key, hit) ==
    [seq |-> IF last_store.seq = 1 THEN 2 ELSE 1, cache |-> last_store.cache,
     op |-> op, key |-> key, hit |-> hit]

\* the two caches share nothing but the clock, so a run exercises one of them
InitStore ==
    /\ OverlayStart
    /\ SyncStart
    /\ BatchStart
    /\ ChatStart
    /\ agent_tools = [a \in Agents |-> BuiltinTools]
    /\ max_sessions = MaxEntries
    /\ touch = NoTouch
    /\ last_store \in {[NoStoreOp EXCEPT !.cache = c] : c \in {"store", "derived"}}
    /\ last_derive = NoDerive
    /\ tasks = [p \in Tasks |-> IdleTask]
    /\ overlapped = FALSE

\* self._session_store.get(key)  (get_state)
StoreGetCall ==
    /\ last_store.cache = "store"
    /\ \E key \in CacheKeys :
       \E r \in {StoreGet(session_store, key, now)} :
           /\ session_store' = r.store
           /\ touch' = TouchGet(key, r.found)
           /\ last_store' = StoreOp("get", key, r.found)
           /\ UNCHANGED <<now, blocks, agent_blocks, last_overlay, faulted, max_sessions,
                          last_derive, sync_vars, batch_vars, chat_vars, race_vars>>

\* self._session_store.set(key, SessionOverlayState())
StoreSetCall ==
    /\ last_store.cache = "store"
    /\ \E key \in CacheKeys :
           /\ session_store' = StoreSet(session_store, key, NewState(now), now)
           /\ touch' = TouchSet(key)
           /\ last_store' = StoreOp("set", key, FALSE)
           /\ UNCHANGED <<now, blocks, agent_blocks, last_overlay, faulted, max_sessions,
                          last_derive, sync_vars, batch_vars, chat_vars, race_vars>>

\* self._session_store.items()  (debug_dump)
StoreItemsCall ==
    /\ last_store.cache = "store"
    /\ session_store' = StoreItems(session_store, now).store
    /\ last_store' = StoreOp("items", <<>>, FALSE)
    /\ UNCHANGED <<now, blocks, agent_blocks, last_overlay, faulted, max_sessions, touch,
                   last_derive, sync_vars, batch_vars, chat_vars, race_vars>>

\* self._derived_sessions.get(key)
CacheGetCall ==
    /\ last_store.cache = "derived"
    /\ \E key \in CacheKeys :
       \E r \in {TTLCacheGet(derived_sessions, key, now)} :
           /\ derived_sessions' = r.cache
           /\ touch' = TouchGet(key, r.value # <<>>)
           /\ last_store' = StoreOp("get", key, r.value # <<>>)
           /\ UNCHANGED <<overlay_vars, sync_vars, batch_vars, agent_map, bridge_ready,
                          last_chat, max_sessions, last_derive, race_vars>>

\* self._derived_sessions.set(key, key)
CacheSetCall ==
    /\ last_store.cache = "derived"
    /\ \E key \in CacheKeys :
           /\ derived_sessions' = TTLCacheSet(derived_sessions, key, key, now)
           /\ touch' = TouchSet(key)
           /\ last_store' = StoreOp("set", key, FALSE)
           /\ UNCHANGED <<overlay_vars, sync_vars, batch_vars, agent_map, bridge_ready,
                          last_chat, max_sessions, last_derive, race_vars>>

\* self._derived_sessions.items()
CacheItemsCall ==
    /\ last_store.cache = "derived"
    /\ derived_sessions' = TTLCacheItems(derived_sessions, now).cache
    /\ last_store' = StoreOp("items", <<>>, FALSE)
    /\ UNCHANGED <<overlay_vars, sync_vars, batch_vars, agent_map, bridge_ready,
                   last_chat, max_sessions, touch, last_derive, race_vars>>

NextStore ==
    \/ StoreGetCall \/ StoreSetCall \/ StoreItemsCall
    \/ CacheGetCall \/ CacheSetCall \/ CacheItemsCall
    \/ Tick

SpecStore == InitStore /\ [][NextStore]_vars

\* --------------------------------------- derive_session_id, call by call

\* the value of the x-session-id header; <<>>: absent or empty
DeriveHeaders == { <<>>, <<"session-1">> }

InitDerive ==
    /\ OverlayStart
    /\ SyncStart
    /\ BatchStart
    /\ ChatStart
    /\ StoreStart
    /\ agent_tools = [a \in Agents |-> BuiltinTools]

\* one overlay_manager.derive_session_id(agent_id, system_content, headers_map)
DeriveCall ==
    \E a \in Agents, c \in RawContents, h \in DeriveHeaders :
    \E r \in {DeriveSessionId(derived_sessions, now, a, c, h)} :
        /\ derived_sessions' = r.cache
        /\ last_derive' = [seq |-> IF last_derive.seq = 1 THEN 2 ELSE 1, agent |-> a,
                           content |-> c, header |-> h, session_id |-> r.session_id]
        /\ UNCHANGED <<overlay_vars, sync_vars, batch_vars, agent_map, bridge_ready,
                       last_chat, max_sessions, touch, last_store, race_vars>>

NextDerive == DeriveCall \/ Tick

SpecDerive == InitDerive /\ [][NextDerive]_vars

\* ------------------------------------------------ main.py: the response

\* the chunk event_stream builds from a backend event; "" for an event it skips
StreamChunk(event) ==
    CASE event = "reasoning_message" -> "reasoning"
      [] event = "assistant_message" -> "content"
      [] event = "tool_call_message" -> "tool_calls"
      [] event = "stop_reason" -> "finish"
      [] OTHER -> ""

RECURSIVE StreamChunks(_)
StreamChunks(events) ==
    IF events = <<>> THEN <<>>
    ELSE (IF StreamChunk(Head(events)) # "" THEN <<StreamChunk(Head(events))>> ELSE <<>>)
         \o StreamChunks(Tail(events))

\* backend did not raise
NoRaise == 0 - 1

\* (as EventStream, when the handler of the exception ends the generator)
EventStreamCutShort(events, raise_after) ==
    IF raise_after = NoRaise
    THEN <<"primer">> \o StreamChunks(events) \o <<"[DONE]">>
    ELSE <<"primer">> \o StreamChunks(SubSeq(events, 1, raise_after)) \o <<"error">>

\* event_stream: the primer, a chunk per event, the error chunk if create_stream
\* raised (after raise_after events), and [DONE] in every case
EventStream(events, raise_after) ==
    IF raise_after = NoRaise
    THEN <<"primer">> \o StreamChunks(events) \o <<"[DONE]">>
    ELSE <<"primer">> \o StreamChunks(SubSeq(events, 1, raise_after))
         \o <<"error", "[DONE]">>

\* (as EmptyStream, without the primer)
EmptyStreamBare == <<"[DONE]">>

\* empty_stream
EmptyStream == <<"primer", "[DONE]">>

\* finish_reason of the non-streaming response
FinishReason(reply) ==
    LET has(kind) == \E i \in 1..Len(reply) : reply[i] = kind IN
    IF has("tool_call_message") /\ ~has("tool_return_message") /\ ~has("assistant_message")
    THEN "tool_calls" ELSE "stop"

\* the content of the non-streaming response: "" with the tool calls, else the
\* contents of the assistant messages, one token for each
ResponseContent(reply) ==
    IF FinishReason(reply) = "tool_calls" THEN <<>>
    ELSE SelectSeq(reply, LAMBDA m : m = "assistant_message")

\* ------------------------------------------------ main.py: chat_completions

\* what a request leaves behind when it is refused before any work
ChatRefusedBare(status) ==
    [status |-> status, derived |-> derived_sessions, ov_ran |-> FALSE,
     store |-> session_store, blocks |-> blocks, agent_blocks |-> agent_blocks,
     ov_fail |-> "none",
     sync_ran |-> FALSE, sync_raised |-> FALSE, att |-> {}, reg |-> tool_registry,
     tm |-> tool_mapping, lnm |-> letta_name_mapping,
     agent |-> "", session |-> <<>>, fallback |-> <<>>, outbound |-> <<>>,
     sent |-> FALSE, frames |-> <<>>, finish_reason |-> "", stream_raised |-> FALSE,
     steps |-> <<>>, content |-> <<>>, usage |-> "",
     system |-> <<>>, changed |-> FALSE]

\* (as ChatRefused, when the transcript is tested after the session is derived)
ChatRefusedLate(req, status) ==
    IF status = 400
    THEN [ChatRefusedBare(status) EXCEPT
            !.derived = DeriveSessionId(derived_sessions, now, agent_map[req.model],
                                        <<>>, req.header).cache]
    ELSE ChatRefusedBare(status)

\* raise HTTPException(status_code=404 | 400), first thing in the handler
ChatRefused(req, status) == ChatRefusedBare(status)

\* if body.tools:
SyncRequested(tools) == tools # <<>>

\* (as RequestSteps, when the tools are synchronized after the message call)
RequestStepsSyncLate(sync_called, sent) ==
    <<"derive_session_id", "apply_overlay", "build_batch">>
    \o (IF sent THEN <<"message_call">> ELSE <<>>)
    \o (IF sync_called THEN <<"sync_agent_tools">> ELSE <<>>)

\* the steps of an accepted request in the order of the handler's statements:
\* derive_session_id (l.389), apply_overlay (l.390), the composition of the
\* outbound batch (l.394-433), sync_agent_tools if body.tools (l.444-447), and,
\* unless the sync raised or the batch is empty, the message call (l.494, l.676)
RequestSteps(sync_called, sent) ==
    <<"derive_session_id", "apply_overlay", "build_batch">>
    \o (IF sync_called THEN <<"sync_agent_tools">> ELSE <<>>)
    \o (IF sent THEN <<"message_call">> ELSE <<>>)

\* chat_completions, whole, on the request req with the backend behaving as fl
\* says: fl.overlay the failure point of apply_overlay, fl.order and fl.sync the
\* iteration order and the failing call of the tool sync, fl.reply the events
\* the agent answers with, fl.raise_after when the message call raises
ChatCompletions(req, fl) ==
    IF req.model \notin DOMAIN agent_map THEN ChatRefused(req, 404)
    ELSE IF req.messages = <<>> THEN ChatRefused(req, 400)
    ELSE
    LET agent_id == agent_map[req.model]
        system_content == CollectSystemContent(req.messages)
        d == DeriveSessionId(derived_sessions, now, agent_id, system_content, req.header)
        ov == ApplyOverlay(session_store, blocks, agent_blocks, now, agent_id,
                           d.session_id, system_content, fl.overlay)
        outbound == OutboundMessages(ov.fallback, req.tool_results, req.messages)
        synced == SyncRequested(req.tools) /\ bridge_ready
        sy == SyncAgentTools(agent_tools[agent_id], tool_registry, tool_mapping,
                             letta_name_mapping, agent_id, req.tools, fl.order, fl.sync)
        aborted == SyncRequested(req.tools) /\ (~bridge_ready \/ sy.raised)
        sent == ~aborted /\ outbound # <<>>
        after == [status |-> 200, derived |-> d.cache, ov_ran |-> TRUE,
                  store |-> ov.store, blocks |-> ov.blocks,
                  agent_blocks |-> ov.agent_blocks, ov_fail |-> ov.fail,
                  sync_ran |-> synced, sync_raised |-> synced /\ sy.raised,
                  att |-> IF synced THEN sy.att ELSE agent_tools[agent_id],
                  reg |-> IF synced THEN sy.reg ELSE tool_registry,
                  tm |-> IF synced THEN sy.tm ELSE tool_mapping,
                  lnm |-> IF synced THEN sy.lnm ELSE letta_name_mapping,
                  agent |-> agent_id, session |-> d.session_id,
                  fallback |-> ov.fallback, outbound |-> outbound,
                  sent |-> sent, frames |-> <<>>, finish_reason |-> "",
                  stream_raised |-> FALSE,
                  steps |-> RequestSteps(SyncRequested(req.tools), sent),
                  content |-> <<>>, usage |-> "",
                  system |-> system_content, changed |-> ov.changed]
    IN
    IF aborted THEN [after EXCEPT !.status = 500]
    ELSE IF req.stream /\ outbound = <<>> THEN [after EXCEPT !.frames = EmptyStream]
    ELSE IF req.stream
    THEN [after EXCEPT !.frames = EventStream(fl.reply, fl.raise_after),
                       !.stream_raised = fl.raise_after # NoRaise]
    ELSE IF outbound = <<>>
    THEN [after EXCEPT !.finish_reason = "stop", !.content = <<>>, !.usage = "zero"]
    ELSE IF fl.raise_after # NoRaise THEN [after EXCEPT !.status = 500]
    ELSE [after EXCEPT !.finish_reason = FinishReason(fl.reply),
                       !.content = ResponseContent(fl.reply),
                       !.usage = "resp.usage"]

\* -- the requests and the backend behaviours drawn

MaxChatTools == 1
\* requests served in one run of the proxy
MaxRequests == 2

ChatModels == {"alpha", "gpt-4"}

\* messages and tool_results of the request bodies
ChatBodies ==
    { [messages |-> <<>>, tool_results |-> <<>>],
      [messages |-> << Msg("system", ContentStr(<<"x", "CR", "LF">>), ""),
                       Msg("user", ContentStr(<<"First">>), "") >>,
       tool_results |-> <<>>],
      [messages |-> << Msg("system", ContentStr(<<"y">>), ""),
                       Msg("assistant", ContentStr(<<"Ack">>), ""),
                       Msg("tool", ContentStr(<<"one">>), "call_1") >>,
       tool_results |-> <<ToolResult("call_1")>>],
      [messages |-> << Msg("assistant", ContentStr(<<"Ack">>), "") >>,
       tool_results |-> <<>>] }

ChatToolLists == UNION { [1..n -> ToolNames] : n \in 0..MaxChatTools }

HeaderIds == { <<>>, <<"session-1">> }

ChatRequests ==
    { [model |-> m, messages |-> b.messages, tools |-> T,
       tool_results |-> b.tool_results, stream |-> st, header |-> h] :
      m \in ChatModels, b \in ChatBodies, T \in ChatToolLists,
      st \in BOOLEAN, h \in HeaderIds }

ChatReplies ==
    { <<"reasoning_message", "assistant_message", "usage_statistics", "stop_reason">>,
      <<"tool_call_message">> }

\* the backend behaviours that make a difference to the request
ChatFaults(req) ==
    IF req.model \notin DOMAIN agent_map \/ req.messages = <<>>
    THEN { [overlay |-> "none", order |-> <<>>, sync |-> 0,
            reply |-> <<>>, raise_after |-> NoRaise] }
    ELSE
    LET agent_id == agent_map[req.model]
        system_content == CollectSystemContent(req.messages)
        sid == DeriveSessionId(derived_sessions, now, agent_id, system_content,
                               req.header).session_id
        orders == IF SyncRequested(req.tools)
                  THEN Orders(ToRemove(agent_tools[agent_id],
                                       RequestedLettaNames(req.tools)))
                  ELSE { <<>> }
        sync_calls(o) == Len(SyncAgentTools(agent_tools[agent_id], tool_registry,
                                            tool_mapping, letta_name_mapping,
                                            agent_id, req.tools, o, 0).calls)
    IN
    UNION { UNION { { [overlay |-> f, order |-> o, sync |-> k,
                       reply |-> r, raise_after |-> x] :
                      k \in (IF SyncRequested(req.tools) THEN 0..sync_calls(o) ELSE {0}),
                      r \in ChatReplies,
                      x \in (IF req.stream THEN {NoRaise, 0, 1} ELSE {NoRaise, 0}) } :
                    o \in orders } :
            f \in FailChoices(session_store, blocks, agent_blocks, now, agent_id,
                              sid, system_content) \cap {"none", "list", "modify"} }

\* one POST /v1/chat/completions, served to its end
ChatCompletionsCall ==
    /\ last_chat.seq < MaxRequests
    /\ \E req \in ChatRequests :
       \E fl \in ChatFaults(req) :
       \E r \in {ChatCompletions(req, fl)} :
           /\ Len(r.blocks) <= MaxBlocks
           /\ derived_sessions' = r.derived
           /\ session_store' = r.store
           /\ blocks' = r.blocks
           /\ agent_blocks' = r.agent_blocks
           /\ faulted' = (faulted \/ r.ov_fail # "none")
           /\ agent_tools' = IF r.sync_ran THEN [agent_tools EXCEPT ![r.agent] = r.att]
                             ELSE agent_tools
           /\ tool_registry' = r.reg
           /\ tool_mapping' = r.tm
           /\ letta_name_mapping' = r.lnm
           /\ last_chat' = [seq |-> last_chat.seq + 1,
                            model |-> req.model, agent |-> r.agent, tools |-> req.tools,
                            stream |-> req.stream, status |-> r.status,
                            session |-> r.session, fallback |-> r.fallback,
                            n_messages |-> Len(req.messages),
                            outbound |-> r.outbound, sync_raised |-> r.sync_raised,
                            sent |-> r.sent,
                            frames |-> r.frames, finish_reason |-> r.finish_reason,
                            stream_raised |-> r.stream_raised, steps |-> r.steps,
                            content |-> r.content, usage |-> r.usage,
                            system |-> r.system, changed |-> r.changed]
           \* last_overlay and last_sync observe the calls made on the manager and the
           \* bridge directly; the request is observed in last_chat
           /\ UNCHANGED <<now, last_overlay, last_sync, agent_map, bridge_ready, batch_vars,
                        store_vars, race_vars>>

\* startup_event: agent_map from client.agents.list(), or {} when the call
\* raises; the tool bridge is initialized only if the map is not empty
StartupEvent(discovered) ==
    [agent_map |-> IF discovered THEN AgentMapFull ELSE EmptyDict,
     bridge_ready |-> discovered]

\* the proxy after startup_event, the discovery having succeeded or failed
InitChat ==
    /\ OverlayStart
    /\ SyncStart
    /\ BatchStart
    /\ \E discovered \in BOOLEAN :
          /\ agent_map = StartupEvent(discovered).agent_map
          /\ bridge_ready = StartupEvent(discovered).bridge_ready
    /\ derived_sessions = <<>>
    /\ last_chat = NoChat
    /\ StoreStart
    /\ agent_tools = [a \in Agents |-> BuiltinTools]

NextChat == ChatCompletionsCall

SpecChat == InitChat /\ [][NextChat]_vars

InitOverlay ==
    /\ OverlayStart
    /\ SyncStart
    /\ BatchStart
    /\ ChatStart
    /\ StoreStart
    /\ agent_tools = [a \in Agents |-> BuiltinTools]

NextOverlay == ApplyOverlayCall \/ Tick

SpecOverlay == InitOverlay /\ [][NextOverlay]_vars

\* ------------------- apply_overlay, await by await, two coroutines at once

\* The event loop runs one coroutine at a time and changes coroutine only at an
\* await.  A step below is the code from one await of apply_overlay to the
\* next: the backend call that was awaited returns or raises and the code runs
\* on to the next backend call, or to the return.

RaceAgent == "agent-1"

Other(p) == 3 - p

Suspended(p) == tasks[p].pc \notin {"idle", "done"}

\* (as TaskState, when get hands out a copy of the stored state)
TaskStateCopy(p) == tasks[p].st

\* the SessionOverlayState object the coroutine holds: the one in the store when
\* get returned it (the object is shared with the store), else its own
TaskState(p) ==
    IF tasks[p].shared
    THEN session_store[StoreIndex(session_store, tasks[p].session)].st
    ELSE tasks[p].st

\* the other coroutine after p has stored its own object under the session id:
\* if it held the object that was in the store, it now holds it alone
Displaced(p, q) ==
    IF tasks[q].shared /\ tasks[q].session = tasks[p].session /\ ~tasks[p].shared
    THEN [tasks[q] EXCEPT !.shared = FALSE, !.st = TaskState(q)]
    ELSE tasks[q]

\* from the return of the last backend call to the return of apply_overlay:
\* the success path (block_id: the block updated or attached) or the except
\* branch, then the finally clause
RaceReturn(p, ok, block_id) ==
    LET state == TaskState(p)
        clean == CleanContent(tasks[p].content)
        post == IF ok
                THEN [state EXCEPT !.block_id = block_id,
                                   !.overlay_hash = HashContent(clean),
                                   !.fallback_applied = FALSE]
                ELSE FailedState(state, HashContent(clean))
    IN /\ session_store' = StoreSet(session_store, tasks[p].session, post, now)
       /\ tasks' = [q \in Tasks |->
                      IF q = p
                      THEN [tasks[p] EXCEPT
                              !.pc = "done", !.shared = TRUE, !.changed = ok,
                              !.raised = ~ok,
                              !.fallback = IF ok THEN <<>> ELSE FallbackFor(state, clean)]
                      ELSE Displaced(p, q)]

\* the call of apply_overlay, up to its first await or, on the early returns,
\* to its end
RaceBegin(p) ==
    /\ tasks[p].pc = "idle"
    /\ \E s \in Sessions, c \in RawContents :
       \E g \in {StoreGet(session_store, s, now)} :
          IF c = <<>> \/ SkipReconcile(g.st, HashContent(CleanContent(c)))
          THEN /\ session_store' = StoreSet(g.store, s, g.st, now)
               /\ tasks' = [tasks EXCEPT ![p] =
                               [IdleTask EXCEPT !.pc = "done", !.session = s,
                                                !.content = c, !.shared = TRUE,
                                                !.cached = g.found]]
               /\ overlapped' = overlapped
          ELSE /\ session_store' = g.store
               /\ tasks' = [tasks EXCEPT ![p] =
                               [IdleTask EXCEPT
                                  !.pc = IF g.st.block_id # NoBlock THEN "modify" ELSE "list",
                                  !.session = s, !.content = c, !.shared = g.found,
                                  !.cached = g.found,
                                  !.st = g.st, !.target = g.st.block_id]]
               /\ overlapped' = (overlapped \/ Suspended(Other(p)))
    /\ UNCHANGED <<now, blocks, agent_blocks, last_overlay, faulted>>
    /\ UNCHANGED <<sync_vars, batch_vars, chat_vars, store_vars>>

\* await list_method(agent_id) is over
RaceList(p) ==
    /\ tasks[p].pc = "list"
    /\ \E raises \in BOOLEAN :
          IF raises
          THEN RaceReturn(p, FALSE, NoBlock) /\ faulted' = TRUE
          ELSE LET found == FindOverlayBlock(blocks, agent_blocks[RaceAgent]) IN
               /\ tasks' = [tasks EXCEPT ![p] =
                               [@ EXCEPT !.pc = IF found # NoBlock THEN "modify" ELSE "create",
                                         !.target = found]]
               /\ UNCHANGED <<session_store, faulted>>
    /\ UNCHANGED <<now, blocks, agent_blocks, last_overlay, overlapped>>
    /\ UNCHANGED <<sync_vars, batch_vars, chat_vars, store_vars>>

\* await self._client.blocks.modify(...) is over (the session's block, or the
\* block found by its label)
RaceModify(p) ==
    /\ tasks[p].pc = "modify"
    /\ \E raises \in BOOLEAN :
          IF raises
          THEN /\ RaceReturn(p, FALSE, NoBlock) /\ faulted' = TRUE
               /\ blocks' = blocks
          ELSE /\ RaceReturn(p, TRUE, tasks[p].target) /\ faulted' = faulted
               /\ blocks' = BlocksModify(blocks, tasks[p].target,
                                         CleanContent(tasks[p].content))
    /\ UNCHANGED <<now, agent_blocks, last_overlay, overlapped>>
    /\ UNCHANGED <<sync_vars, batch_vars, chat_vars, store_vars>>

\* what a blocks.create call comes to: a block, a block without id, TypeError
\* for the keywords limit and read_only, or another exception
CreateOutcomes == {"block", "noid", "type_error", "raises"}

\* await self._client.blocks.create(...) is over; again: it was the call
\* repeated after the TypeError
RaceCreated(p, again) ==
    \E out \in (IF again THEN CreateOutcomes \ {"type_error"} ELSE CreateOutcomes) :
       CASE out = "block" ->
              /\ Len(blocks) < MaxBlocks
              /\ blocks' = BlocksCreate(blocks, CleanContent(tasks[p].content), RaceAgent)
              /\ tasks' = [tasks EXCEPT ![p] =
                              [@ EXCEPT !.pc = "attach", !.target = Len(blocks) + 1]]
              /\ UNCHANGED <<session_store, faulted>>
         [] out = "type_error" ->
              /\ tasks' = [tasks EXCEPT ![p] = [@ EXCEPT !.pc = "create_plain"]]
              /\ faulted' = TRUE
              /\ UNCHANGED <<session_store, blocks>>
         [] OTHER ->
              /\ RaceReturn(p, FALSE, NoBlock) /\ faulted' = TRUE
              /\ blocks' = blocks

RaceCreate(p) ==
    /\ tasks[p].pc = "create"
    /\ RaceCreated(p, FALSE)
    /\ UNCHANGED <<now, agent_blocks, last_overlay, overlapped>>
    /\ UNCHANGED <<sync_vars, batch_vars, chat_vars, store_vars>>

RaceCreatePlain(p) ==
    /\ tasks[p].pc = "create_plain"
    /\ RaceCreated(p, TRUE)
    /\ UNCHANGED <<now, agent_blocks, last_overlay, overlapped>>
    /\ UNCHANGED <<sync_vars, batch_vars, chat_vars, store_vars>>

\* await self._client.agents.blocks.attach(agent_id, block_id) is over
RaceAttach(p) ==
    /\ tasks[p].pc = "attach"
    /\ \E raises \in BOOLEAN :
          IF raises
          THEN /\ RaceReturn(p, FALSE, NoBlock) /\ faulted' = TRUE
               /\ agent_blocks' = agent_blocks
          ELSE /\ RaceReturn(p, TRUE, tasks[p].target) /\ faulted' = faulted
               /\ agent_blocks' = [agent_blocks EXCEPT
                                     ![RaceAgent] = Append(@, tasks[p].target)]
    /\ UNCHANGED <<now, blocks, last_overlay, overlapped>>
    /\ UNCHANGED <<sync_vars, batch_vars, chat_vars, store_vars>>

\* an apply_overlay call served to its end before the two requests arrive: it
\* leaves a state in the store
RaceEarlier ==
    /\ \A p \in Tasks : tasks[p].pc = "idle"
    /\ session_store = <<>>
    /\ \E s \in Sessions, c \in RawContents :
       \E fail \in FailChoices(session_store, blocks, agent_blocks, now, RaceAgent, s, c) :
       \E r \in {ApplyOverlay(session_store, blocks, agent_blocks, now, RaceAgent, s, c,
                              fail)} :
          /\ session_store' = r.store
          /\ blocks' = r.blocks
          /\ agent_blocks' = r.agent_blocks
          /\ faulted' = (faulted \/ r.fail # "none")
    /\ UNCHANGED <<now, last_overlay, sync_vars, batch_vars, chat_vars, store_vars,
                   race_vars>>

\* the store has room for every session: nothing is evicted, and the clock
\* stands still while the two requests are served
InitRace ==
    /\ OverlayStart
    /\ SyncStart
    /\ BatchStart
    /\ ChatStart
    /\ touch = NoTouch
    /\ last_store = NoStoreOp
    /\ last_derive = NoDerive
    /\ max_sessions = Cardinality(Sessions)
    /\ tasks = [p \in Tasks |-> IdleTask]
    /\ overlapped = FALSE
    /\ agent_tools = [a \in Agents |-> BuiltinTools]

NextRace ==
    \/ RaceEarlier
    \/ \E p \in Tasks :
        \/ RaceBegin(p) \/ RaceList(p) \/ RaceModify(p)
        \/ RaceCreate(p) \/ RaceCreatePlain(p) \/ RaceAttach(p)

SpecRace == InitRace /\ [][NextRace]_vars

\* ------------- SessionOverlayStore and _TTLCache, the same operations on both

\* the keys a cache would report present now (what items() returns)
StoreKeysNow == {session_store[i].sid : i \in
                    {j \in 1..Len(session_store) :
                        now - session_store[j].st.last_updated <= TtlSeconds}}
CacheKeysNow == {derived_sessions[i].key : i \in
                    {j \in 1..Len(derived_sessions) :
                        now - derived_sessions[j].ts <= TtlSeconds}}

\* SessionOverlayStore(MaxEntries, TtlSeconds) and _TTLCache(MaxEntries, TtlSeconds)
InitPair ==
    /\ OverlayStart
    /\ SyncStart
    /\ BatchStart
    /\ ChatStart
    /\ agent_tools = [a \in Agents |-> BuiltinTools]
    /\ max_sessions = MaxEntries
    /\ touch = NoTouch
    /\ last_store = NoStoreOp
    /\ last_derive = NoDerive
    /\ tasks = [p \in Tasks |-> IdleTask]
    /\ overlapped = FALSE

\* store.get(key) and cache.get(key)
PairGetCall ==
    \E key \in CacheKeys :
    \E s \in {StoreGet(session_store, key, now)},
       c \in {TTLCacheGet(derived_sessions, key, now)} :
        /\ session_store' = s.store
        /\ derived_sessions' = c.cache
        /\ last_store' = [seq |-> IF last_store.seq = 1 THEN 2 ELSE 1, cache |-> "both",
                          op |-> "get", key |-> key, hit |-> s.found]
        /\ UNCHANGED <<now, blocks, agent_blocks, last_overlay, faulted, sync_vars,
                       batch_vars, agent_map, bridge_ready, last_chat, max_sessions,
                       touch, last_derive, race_vars>>

\* store.set(key, SessionOverlayState()) and cache.set(key, key)
PairSetCall ==
    \E key \in CacheKeys :
        /\ session_store' = StoreSet(session_store, key, NewState(now), now)
        /\ derived_sessions' = TTLCacheSet(derived_sessions, key, key, now)
        /\ last_store' = [seq |-> IF last_store.seq = 1 THEN 2 ELSE 1, cache |-> "both",
                          op |-> "set", key |-> key, hit |-> FALSE]
        /\ UNCHANGED <<now, blocks, agent_blocks, last_overlay, faulted, sync_vars,
                       batch_vars, agent_map, bridge_ready, last_chat, max_sessions,
                       touch, last_derive, race_vars>>

\* store.items() and cache.items()
PairItemsCall ==
    /\ session_store' = StoreItems(session_store, now).store
    /\ derived_sessions' = TTLCacheItems(derived_sessions, now).cache
    /\ last_store' = [seq |-> IF last_store.seq = 1 THEN 2 ELSE 1, cache |-> "both",
                      op |-> "items", key |-> <<>>, hit |-> FALSE]
    /\ UNCHANGED <<now, blocks, agent_blocks, last_overlay, faulted, sync_vars,
                   batch_vars, agent_map, bridge_ready, last_chat, max_sessions,
                   touch, last_derive, race_vars>>

NextPair == PairGetCall \/ PairSetCall \/ PairItemsCall \/ Tick

SpecPair == InitPair /\ [][NextPair]_vars

\* ------------- apply_overlay for every agent, all sessions fitting the store

\* ProxyOverlayManager(client, max_sessions >= the number of sessions)
InitShared ==
    /\ OverlayStart
    /\ SyncStart
    /\ BatchStart
    /\ ChatStart
    /\ agent_tools = [a \in Agents |-> BuiltinTools]
    /\ max_sessions = Cardinality(Sessions)
    /\ touch = NoTouch
    /\ last_store = NoStoreOp
    /\ last_derive = NoDerive
    /\ tasks = [p \in Tasks |-> IdleTask]
    /\ overlapped = FALSE

\* one await overlay_manager.apply_overlay(agent_id, session_id, system_content)
\* of a request for any agent; a session id given in the header is not bound to
\* an agent
SharedOverlayCall ==
    \E a \in Agents, s \in Sessions, c \in RawContents :
    \E fail \in FailChoices(session_store, blocks, agent_blocks, now, a, s, c) :
        \E r \in {ApplyOverlay(session_store, blocks, agent_blocks, now, a, s, c, fail)} :
        /\ Len(r.blocks) <= MaxBlocks
        /\ session_store' = r.store
        /\ blocks' = r.blocks
        /\ agent_blocks' = r.agent_blocks
        /\ last_overlay' = OverlayRecord(r, last_overlay)
        /\ faulted' = (faulted \/ r.fail # "none")
        /\ now' = now
        /\ UNCHANGED <<sync_vars, batch_vars, chat_vars, store_vars, race_vars>>

\* (the clock stands still: no state expires)
NextShared == SharedOverlayCall

SpecShared == InitShared /\ [][NextShared]_vars

\* --------------- sync_agent_tools, await by await, two coroutines at once

\* A step below is the code of sync_agent_tools from one await to the next: the
\* backend call that was awaited returns or raises and the code runs on to the
\* next backend call, or to the return.  Both calls are for one agent.

\* a sync coroutine that has not begun (current: the names the list returned;
\* to_remove, to_add: what is left of the two loops)
IdleSync ==
    [pc |-> "idle", tools |-> <<>>, current |-> {}, to_remove |-> <<>>,
     to_add |-> <<>>, raised |-> FALSE]

\* the code from the end of one backend call to the next await, or to the
\* return: the loop over to_remove, the cleanup when no tool is requested, the
\* loop over the tools to add, the mapping of the tools that were attached already
SyncProceed(t, tm, lnm) ==
    IF t.to_remove # <<>>
    THEN [task |-> [t EXCEPT !.pc = "detach"], tm |-> tm, lnm |-> lnm]
    ELSE IF t.tools = <<>>
    THEN [task |-> [t EXCEPT !.pc = "done"], tm |-> EmptyDict, lnm |-> EmptyDict]
    ELSE IF t.to_add # <<>>
    THEN [task |-> [t EXCEPT !.pc = "upsert"], tm |-> tm, lnm |-> lnm]
    ELSE LET m == MapExisting([tm |-> tm, lnm |-> lnm], t.tools, t.current) IN
         [task |-> [t EXCEPT !.pc = "done"], tm |-> m.tm, lnm |-> m.lnm]

\* the awaited call raises: nothing catches it, the coroutine is gone
SyncRaceRaise(p) ==
    /\ tasks' = [tasks EXCEPT ![p] = [@ EXCEPT !.pc = "done", !.raised = TRUE]]
    /\ UNCHANGED <<tool_registry, agent_tools, tool_mapping, letta_name_mapping>>

\* the call of sync_agent_tools, up to await self.client.agents.tools.list(agent_id)
SyncRaceBegin(p) ==
    /\ tasks[p].pc = "idle"
    /\ \E T \in ToolLists :
          tasks' = [tasks EXCEPT ![p] = [IdleSync EXCEPT !.pc = "list", !.tools = T]]
    /\ overlapped' = (overlapped \/ Suspended(Other(p)))
    /\ UNCHANGED <<overlay_vars, sync_vars, batch_vars, chat_vars, store_vars>>

\* the list is over: current_tool_names, requested_letta_names, to_remove (in
\* some order of iteration) and to_add_names are computed
SyncRaceList(p) ==
    /\ tasks[p].pc = "list"
    /\ \/ SyncRaceRaise(p)
       \/ \E order \in Orders(ToRemove(agent_tools[RaceAgent],
                                      RequestedLettaNames(tasks[p].tools))) :
          LET current == agent_tools[RaceAgent]
              to_add_names == ToAddNames(RequestedLettaNames(tasks[p].tools), current)
              t == [tasks[p] EXCEPT
                      !.current = current, !.to_remove = order,
                      !.to_add = SelectSeq(tasks[p].tools,
                                           LAMBDA n : Prefixed(n) \in to_add_names)]
              r == SyncProceed(t, tool_mapping, letta_name_mapping)
          IN /\ tasks' = [tasks EXCEPT ![p] = r.task]
             /\ tool_mapping' = r.tm
             /\ letta_name_mapping' = r.lnm
             /\ UNCHANGED <<tool_registry, agent_tools>>
    /\ UNCHANGED <<overlay_vars, last_sync, batch_vars, chat_vars, store_vars, overlapped>>

\* await self.client.agents.tools.detach(agent_id, tool_id) is over
SyncRaceDetach(p) ==
    /\ tasks[p].pc = "detach"
    /\ \/ SyncRaceRaise(p)
       \/ LET name == Head(tasks[p].to_remove)
              m == RemoveToolFromMappings([tm |-> tool_mapping,
                                           lnm |-> letta_name_mapping], ToolId(name))
              r == SyncProceed([tasks[p] EXCEPT !.to_remove = Tail(@)], m.tm, m.lnm)
          IN /\ agent_tools' = [agent_tools EXCEPT ![RaceAgent] = @ \ {name}]
             /\ tasks' = [tasks EXCEPT ![p] = r.task]
             /\ tool_mapping' = r.tm
             /\ letta_name_mapping' = r.lnm
             /\ UNCHANGED tool_registry
    /\ UNCHANGED <<overlay_vars, last_sync, batch_vars, chat_vars, store_vars, overlapped>>

\* await self._create_proxy_tool(openai_tool) is over (tools.upsert)
SyncRaceUpsert(p) ==
    /\ tasks[p].pc = "upsert"
    /\ \/ SyncRaceRaise(p)
       \/ /\ tool_registry' = tool_registry \cup {Prefixed(Head(tasks[p].to_add))}
          /\ tasks' = [tasks EXCEPT ![p] = [@ EXCEPT !.pc = "attach"]]
          /\ UNCHANGED <<agent_tools, tool_mapping, letta_name_mapping>>
    /\ UNCHANGED <<overlay_vars, last_sync, batch_vars, chat_vars, store_vars, overlapped>>

\* await self.client.agents.tools.attach(agent_id, proxy_tool.id) is over
SyncRaceAttach(p) ==
    /\ tasks[p].pc = "attach"
    /\ \/ SyncRaceRaise(p)
       \/ LET name == Head(tasks[p].to_add)
              id == ToolId(Prefixed(name))
              r == SyncProceed([tasks[p] EXCEPT !.to_add = Tail(@)],
                               DictSet(tool_mapping, name, id),
                               DictSet(letta_name_mapping, id, Prefixed(name)))
          IN /\ agent_tools' = [agent_tools EXCEPT ![RaceAgent] = @ \cup {Prefixed(name)}]
             /\ tasks' = [tasks EXCEPT ![p] = r.task]
             /\ tool_mapping' = r.tm
             /\ letta_name_mapping' = r.lnm
             /\ UNCHANGED tool_registry
    /\ UNCHANGED <<overlay_vars, last_sync, batch_vars, chat_vars, store_vars, overlapped>>

\* a fresh bridge; the agent carries whatever an earlier process left attached
InitSyncRace ==
    /\ OverlayStart
    /\ SyncStart
    /\ BatchStart
    /\ ChatStart
    /\ max_sessions = MaxSessions
    /\ touch = NoTouch
    /\ last_store = NoStoreOp
    /\ last_derive = NoDerive
    /\ tasks = [p \in Tasks |-> IdleSync]
    /\ overlapped = FALSE
    /\ \E P \in SUBSET {Prefixed(n) : n \in ToolNames} :
          agent_tools = [a \in Agents |->
                            IF a = RaceAgent THEN BuiltinTools \cup P ELSE BuiltinTools]

NextSyncRace ==
    \E p \in Tasks :
        \/ SyncRaceBegin(p) \/ SyncRaceList(p) \/ SyncRaceDetach(p)
        \/ SyncRaceUpsert(p) \/ SyncRaceAttach(p)

SpecSyncRace == InitSyncRace /\ [][NextSyncRace]_vars

\* ---------------------------------------------------------------- claims

\* create and update calls among the backend calls of an apply_overlay
Mutations(calls) ==
    Cardinality({i \in 1..Len(calls) : calls[i].op \in {"create", "create_plain", "modify"}})

\* the step completes an apply_overlay call that follows another one on the same
\* agent and session, the session's state still being in the store
OverlayPair ==
    /\ last_overlay.seq # 0
    /\ last_overlay'.seq # last_overlay.seq
    /\ last_overlay'.agent = last_overlay.agent
    /\ last_overlay'.session = last_overlay.session
    /\ last_overlay'.found

\* a backend call of the apply_overlay recorded in rec raised and was not made up for
Failed(rec) == rec.fail \notin {"none", "create_kw"}

\* C1 (idempotent skip): when apply_overlay(a, s, C), C non-empty, has reconciled
\* the backend without any call raising, and apply_overlay(a, s, C) follows with
\* the state still cached, the two calls issue one create/update call in total;
\* the second issues no backend call and returns (changed = false, []).
C1_IdempotentSkip ==
    [][ ( /\ OverlayPair
          /\ last_overlay'.content = last_overlay.content
          /\ last_overlay.content # <<>>
          /\ ~last_overlay.skipped
          /\ last_overlay.fail = "none" )
        => ( /\ Mutations(last_overlay.calls) + Mutations(last_overlay'.calls) = 1
             /\ last_overlay'.calls = <<>>
             /\ last_overlay'.skipped
             /\ ~last_overlay'.changed
             /\ last_overlay'.fallback = <<>> ) ]_vars

\* a second call skipped on the block that this run created with the same content
C1_Witness ==
    /\ last_overlay.skipped /\ last_overlay.found /\ last_overlay.calls = <<>>
    /\ last_overlay.block_id # NoBlock
    /\ blocks[last_overlay.block_id].made_for = last_overlay.agent
    /\ blocks[last_overlay.block_id].value = CleanContent(last_overlay.content)

\* C2 (change detection): when apply_overlay(a, s, C1) has succeeded and
\* apply_overlay(a, s, C2) follows with the state still cached, C1 and C2
\* different after normalization and the backend succeeding, the second call
\* issues exactly one update, addressed to the session's block and carrying the
\* normalized C2, no create, and returns changed = true.
C2_ChangeDetection ==
    [][ ( /\ OverlayPair
          /\ last_overlay.content # <<>> /\ last_overlay'.content # <<>>
          /\ CleanContent(last_overlay'.content) # CleanContent(last_overlay.content)
          /\ last_overlay.fail = "none" /\ last_overlay'.fail = "none" )
        => ( /\ last_overlay.block_id # NoBlock
             /\ last_overlay'.calls =
                    << Call("modify", "", last_overlay.block_id,
                            CleanContent(last_overlay'.content)) >>
             /\ last_overlay'.changed
             /\ last_overlay'.fallback = <<>> ) ]_vars

\* the second call updated the block this run created for the agent
C2_Witness ==
    /\ last_overlay.found /\ last_overlay.changed
    /\ Len(last_overlay.calls) = 1 /\ last_overlay.calls[1].op = "modify"
    /\ last_overlay.calls[1].block = last_overlay.block_id
    /\ blocks[last_overlay.block_id].made_for = last_overlay.agent
    /\ blocks[last_overlay.block_id].value = CleanContent(last_overlay.content)

\* C3 (fallback once): when the backend fails in an apply_overlay(a, s, C) on a
\* session that had no cached state, and fails again in the apply_overlay(a, s, C)
\* that follows with the state still cached, the fallback lists have lengths 1
\* and 0 and changed is false both times.
C3_FallbackOnce ==
    [][ ( /\ OverlayPair
          /\ last_overlay'.content = last_overlay.content
          /\ ~last_overlay.found
          /\ Failed(last_overlay) /\ Failed(last_overlay') )
        => ( /\ Len(last_overlay.fallback) = 1
             /\ Len(last_overlay'.fallback) = 0
             /\ ~last_overlay.changed /\ ~last_overlay'.changed ) ]_vars

\* a failed call on a cached session that has had its fallback already
C3_Witness ==
    /\ last_overlay.seq # 0 /\ last_overlay.found /\ Failed(last_overlay)
    /\ last_overlay.fallback = <<>>
    /\ session_store[Len(session_store)].st.fallback_applied
    /\ session_store[Len(session_store)].st.overlay_hash
           = HashContent(CleanContent(last_overlay.content))

\* C4 (never raises): whichever backend call of an apply_overlay fails (update,
\* list, create, attach, or a created block without id), the call returns
\* changed = false and a list that is empty or holds the one fallback message for
\* the normalized content, and the session's state is in the store, stamped with
\* the hash of the content.
C4_NeverRaises ==
    (last_overlay.seq # 0 /\ Failed(last_overlay)) =>
        /\ ~last_overlay.changed
        /\ last_overlay.fallback \in
              { <<>>, <<FallbackMessage(CleanContent(last_overlay.content))>> }
        /\ session_store # <<>>
        /\ session_store[Len(session_store)].sid = last_overlay.session
        /\ session_store[Len(session_store)].st.overlay_hash
               = HashContent(CleanContent(last_overlay.content))
        /\ session_store[Len(session_store)].st.fallback_applied

\* the attach of a created block failed and the call returned the fallback
C4_Witness ==
    /\ last_overlay.fail = "attach" /\ Len(last_overlay.fallback) = 1
    /\ ~last_overlay.changed
    /\ session_store[Len(session_store)].sid = last_overlay.session

\* the agent's attached block that carries the overlay label, as the backend lists it
AttachedOverlay(a) == FindOverlayBlock(blocks, agent_blocks[a])

\* C5 (no duplicate after cache loss): an apply_overlay that finds no cached state
\* for its session while a block with the overlay label is attached to the agent
\* updates that block and adopts its id, creating nothing; and as long as no
\* backend call has raised, at most one block has been created for an agent.
C5_NoDuplicateAfterCacheLoss ==
    /\ [][ ( /\ last_overlay'.seq # last_overlay.seq
             /\ ~last_overlay'.found
             /\ last_overlay'.content # <<>>
             /\ last_overlay'.fail = "none"
             /\ AttachedOverlay(last_overlay'.agent) # NoBlock )
           => ( /\ last_overlay'.calls =
                      << Call("list", last_overlay'.agent, NoBlock, <<>>),
                         Call("modify", "", AttachedOverlay(last_overlay'.agent),
                              CleanContent(last_overlay'.content)) >>
                /\ last_overlay'.block_id = AttachedOverlay(last_overlay'.agent)
                /\ Len(blocks') = Len(blocks) ) ]_vars
    /\ [](~faulted =>
            \A a \in Agents :
                Cardinality({b \in 1..Len(blocks) : blocks[b].made_for = a}) <= 1)

\* after a cache loss the call adopted the block created earlier for the agent
C5_Witness ==
    /\ ~faulted /\ last_overlay.seq # 0 /\ ~last_overlay.found
    /\ Len(last_overlay.calls) = 2 /\ last_overlay.calls[2].op = "modify"
    /\ last_overlay.block_id = last_overlay.calls[2].block
    /\ blocks[last_overlay.block_id].made_for = last_overlay.agent

\* proxy-prefixed tools attached to an agent
ProxyToolsOf(a) == {n \in agent_tools[a] : IsProxy(n)}

\* C6 (exact tool reconciliation): after a sync(a, T) that completed without a
\* backend failure, the prefixed tools attached to a are exactly the prefixed
\* names of T, every tool without the prefix that was attached still is, and no
\* detach, register or attach call named a tool without the prefix.
C6_ExactToolReconciliation ==
    (last_sync.seq # 0 /\ ~last_sync.raised) =>
        /\ ProxyToolsOf(last_sync.agent) = RequestedLettaNames(last_sync.tools)
        /\ \A n \in last_sync.before : ~IsProxy(n) => n \in agent_tools[last_sync.agent]
        /\ \A i \in 1..Len(last_sync.calls) :
              last_sync.calls[i].op \in {"detach", "upsert", "attach"}
                  => IsProxy(last_sync.calls[i].value)

\* attached {proxy_A, proxy_B, builtin_X}, requested [A]: {proxy_A, builtin_X}
C6_Witness ==
    /\ last_sync.seq # 0 /\ ~last_sync.raised
    /\ last_sync.before = {Prefixed(<<"A">>), Prefixed(<<"B">>), <<"builtin_X">>}
    /\ last_sync.tools = << <<"A">> >>
    /\ agent_tools[last_sync.agent] = {Prefixed(<<"A">>), <<"builtin_X">>}

\* C7 (tool sync convergence): when sync(a, T) has completed without a backend
\* failure and sync(a, T') follows with the same requested tool set, the second
\* call issues the fetch of the attached tools and nothing else.
C7_SyncConvergence ==
    [][ ( /\ last_sync.seq # 0
          /\ last_sync'.seq # last_sync.seq
          /\ last_sync'.agent = last_sync.agent
          /\ RequestedLettaNames(last_sync'.tools) = RequestedLettaNames(last_sync.tools)
          /\ ~last_sync.raised )
        => last_sync'.calls = << Call("list_tools", last_sync'.agent, 0, <<>>) >> ]_vars

\* a sync with tools that only fetched, the tools having been registered before
C7_Witness ==
    /\ last_sync.seq # 0 /\ ~last_sync.raised
    /\ last_sync.tools # <<>>
    /\ Len(last_sync.calls) = 1
    /\ RequestedLettaNames(last_sync.tools) \subseteq tool_registry
    /\ \A i \in 1..Len(last_sync.tools) :
          /\ last_sync.tools[i] \in DOMAIN tool_mapping
          /\ tool_mapping[last_sync.tools[i]] = ToolId(Prefixed(last_sync.tools[i]))

\* the transcript's tool messages after its last assistant message, by index
TrailingToolIndexes(messages) ==
    {k \in 1..Len(messages) :
        /\ messages[k].role = "tool"
        /\ \A j \in k..Len(messages) : messages[j].role # "assistant"}

\* those of them the batch carries: without an id, or with an id that no explicit
\* result and no earlier trailing message has
UncoveredToolIndexes(tool_results, messages) ==
    {k \in TrailingToolIndexes(messages) :
        \/ messages[k].tool_call_id = ""
        \/ /\ \A i \in 1..Len(tool_results) :
                  tool_results[i].tool_call_id # messages[k].tool_call_id
           /\ \A j \in TrailingToolIndexes(messages) :
                  j < k => messages[j].tool_call_id # messages[k].tool_call_id}

\* C9 (batch composition and order): the outbound batch is the fallback messages,
\* then one tool message per explicit tool result in request order (its payload
\* JSON-encoded, its id kept), then the trailing transcript tool messages not
\* already covered, in transcript order, then the most recent user turn of the
\* transcript if it has one, and nothing else.
C9_BatchComposition ==
    batch_out # NotComposed =>
        LET F == batch_in.fallback
            R == batch_in.tool_results
            M == batch_in.messages
            K == UncoveredToolIndexes(R, M)
            U == {k \in 1..Len(M) : M[k].role = "user"}
            nU == IF U = {} THEN 0 ELSE 1
            base == Len(F) + Len(R)
        IN
        /\ Len(batch_out) = base + Cardinality(K) + nU
        /\ \A i \in 1..Len(F) : batch_out[i] = F[i]
        /\ \A i \in 1..Len(R) :
              batch_out[Len(F) + i] =
                  [role |-> "tool", text |-> JsonDumps(R[i].result),
                   tool_call_id |-> R[i].tool_call_id]
        /\ \A k \in K :
              batch_out[base + Cardinality({j \in K : j <= k})] =
                  [role |-> "tool", text |-> NormalizeContent(M[k].content),
                   tool_call_id |-> M[k].tool_call_id]
        /\ \A k \in U :
              (\A j \in U : j <= k) =>
                  batch_out[Len(batch_out)] =
                      [role |-> "user", text |-> NormalizeContent(M[k].content),
                       tool_call_id |-> ""]

\* fallback [F], tool results [T1, T2], latest user message U: the batch [F, T1, T2, U]
C9_Witness ==
    /\ batch_in.fallback = <<FallbackMessage(<<"x", "LF">>)>>
    /\ batch_in.tool_results = <<ToolResult("call_1"), ToolResult("call_2")>>
    /\ batch_in.messages =
          << Msg("user", ContentStr(<<"First">>), ""),
             Msg("assistant", ContentStr(<<"Ack">>), ""),
             Msg("user", ContentList(<< TextBlock(<<"Second">>), OtherBlock,
                                        [type |-> "str", text |-> <<" line">>] >>), "") >>
    /\ batch_out =
          << FallbackMessage(<<"x", "LF">>),
             MessageCreate("tool", <<"\"", "r", "call_1", "\"">>, "call_1"),
             MessageCreate("tool", <<"\"", "r", "call_2", "\"">>, "call_2"),
             MessageCreate("user", <<"Second", " line">>, "") >>

\* C10 (tool-result deduplication): in every outbound batch no two tool messages
\* carry the same tool-call id, whatever the explicit tool_results entries and the
\* trailing transcript tool messages of the request are.
C10_ToolResultDedup ==
    batch_out # NotComposed =>
        \A i, j \in 1..Len(batch_out) :
            ( /\ i < j
              /\ batch_out[i].role = "tool" /\ batch_out[j].role = "tool"
              /\ batch_out[i].tool_call_id # "" )
            => batch_out[i].tool_call_id # batch_out[j].tool_call_id

\* C8 (tool cleanup between requests): once a chat-completion request has
\* attached proxy tools to an agent, a request to the same agent that is served
\* with an empty tools array, or without a tools parameter, leaves no
\* proxy-prefixed tool attached to the agent.  (Every agent starts without proxy
\* tools, so whatever is attached was attached by an earlier request.)
C8_ToolCleanup ==
    (last_chat.seq # 0 /\ last_chat.status = 200 /\ last_chat.tools = <<>>)
        => ProxyToolsOf(last_chat.agent) = {}

\* C11 (no replay of prior turns): a user turn that is followed by an assistant
\* turn in the transcript has been sent before and is not part of the outbound
\* batch; when the last user turn of the transcript is followed by an assistant
\* turn, the batch holds nothing after its fallback messages that has the user role.
C11_NoReplay ==
    batch_out # NotComposed =>
        LET M == batch_in.messages
            U == {k \in 1..Len(M) : M[k].role = "user"}
        IN
        (\A k \in U : \E j \in (k + 1)..Len(M) : M[j].role = "assistant")
            => \A i \in (Len(batch_in.fallback) + 1)..Len(batch_out) :
                   batch_out[i].role # "user"

\* a cache operation has just completed
StoreStep(op) == last_store'.seq # last_store.seq /\ last_store'.op = op

\* position of a key in the order of the most recent set or successful get
TouchRank(key) == CHOOSE i \in 1..Len(touch.recency) : touch.recency[i] = key

\* C12 (LRU eviction): a set adds its key; when that makes the number of entries
\* exceed max_entries, exactly one other entry goes, the one whose most recent set
\* or successful get is the oldest; otherwise none goes.  For the session store
\* and the derived-key cache alike.
C12_LruEviction ==
    [][ StoreStep("set") =>
          LET k == last_store'.key
              others == StoredKeys \ {k}
              oldest == CHOOSE x \in others :
                            \A y \in others : TouchRank(x) <= TouchRank(y)
          IN IF Cardinality(others) + 1 <= max_sessions
             THEN StoredKeys' = others \cup {k}
             ELSE StoredKeys' = (others \cup {k}) \ {oldest} ]_vars

\* max_entries + 1 distinct keys were set and the first was got in between: the
\* second one set is gone, the first is still held
C12_Witness ==
    /\ max_sessions = 2
    /\ last_store.op = "set" /\ last_store.key = <<"k3">>
    /\ touch.recency = << <<"k2">>, <<"k1">>, <<"k3">> >>
    /\ touch.set_at[<<"k1">>] < touch.set_at[<<"k2">>]
    /\ StoredKeys = { <<"k1">>, <<"k3">> }

C14_CapacityBound ==
    /\ Len(session_store) <= max_sessions
    /\ Len(derived_sessions) <= max_sessions

\* a set on a full cache has evicted an entry and the cache is full again
C14_Witness ==
    /\ last_store.op = "set"
    /\ Len(touch.recency) > max_sessions
    /\ Cardinality(StoredKeys) = max_sessions

\* C15 (session key precedence): a derive with a non-empty session header returns
\* the header's value whatever the agent and the content are, and leaves the
\* derived-key cache as it was; without it, a non-empty system content gives the
\* agent id with the hash of the content, and no content gives the agent id with
\* "default".
C15_KeyPrecedence ==
    /\ [](last_derive.seq # 0 =>
            last_derive.session_id =
                IF last_derive.header # <<>> THEN last_derive.header
                ELSE IF last_derive.content # <<>>
                THEN <<last_derive.agent, <<"sha256", last_derive.content>>>>
                ELSE <<last_derive.agent, <<"default">>>>)
    /\ [][ (last_derive'.seq # last_derive.seq /\ last_derive'.header # <<>>)
              => derived_sessions' = derived_sessions ]_vars

\* a derive with a header and a content, made while the cache held a key
C15_Witness ==
    /\ last_derive.header = <<"session-1">> /\ last_derive.content # <<>>
    /\ last_derive.session_id = <<"session-1">>
    /\ derived_sessions # <<>>

\* C16 (keys from the normalized prompt): two consecutive derives without a
\* session header, for the same agent, whose system contents are non-empty and
\* equal after normalization, return the same session key.
C16_NormalizedKey ==
    [][ ( /\ last_derive.seq # 0 /\ last_derive'.seq # last_derive.seq
          /\ last_derive.header = <<>> /\ last_derive'.header = <<>>
          /\ last_derive.agent = last_derive'.agent
          /\ last_derive.content # <<>> /\ last_derive'.content # <<>>
          /\ CleanContent(last_derive.content) = CleanContent(last_derive'.content) )
            => last_derive'.session_id = last_derive.session_id ]_vars

\* C17 (reconciliation errors never abort the request): a request during whose
\* tool synchronization a backend call failed is still answered with success,
\* and its batch, when there is one, is still sent to the backend.
C17_SyncErrorRecovered ==
    (last_chat.seq # 0 /\ last_chat.sync_raised) =>
        /\ last_chat.status = 200
        /\ last_chat.outbound # <<>> => last_chat.sent

\* C18 (per-tool failure isolation): when the registration (upsert) or the
\* attachment of one requested tool fails during a sync, every other requested
\* tool is attached to the agent and mapped when that sync call ends.
C18_FailureIsolation ==
    ( /\ last_sync.seq # 0 /\ last_sync.raised
      /\ last_sync.calls[Len(last_sync.calls)].op \in {"upsert", "attach"} ) =>
        LET failed == last_sync.calls[Len(last_sync.calls)].value IN
        \A i \in 1..Len(last_sync.tools) :
            LET n == last_sync.tools[i] IN
            Prefixed(n) # failed =>
                /\ Prefixed(n) \in agent_tools[last_sync.agent]
                /\ n \in DOMAIN tool_mapping
                /\ tool_mapping[n] = ToolId(Prefixed(n))

\* C19 (request-boundary errors have no effect): a request whose model matches
\* no agent, and a request with an empty transcript, are answered with a client
\* error; no message is sent to the backend, and the derived-key cache, the
\* session store, the backend's blocks and tools and the bridge's mappings are
\* what they were before the request.
C19_BoundaryErrors ==
    [][ ( /\ last_chat'.seq # last_chat.seq
          /\ last_chat'.model \notin DOMAIN agent_map \/ last_chat'.n_messages = 0 )
        => /\ last_chat'.status \in 400..499
           /\ ~last_chat'.sent
           /\ UNCHANGED <<derived_sessions, session_store, blocks, agent_blocks,
                          agent_tools, tool_registry, tool_mapping,
                          letta_name_mapping>> ]_vars

\* a refused request with an empty transcript, a header and tools, made after a
\* request that was served
C19_Witness ==
    /\ last_chat.seq = 2 /\ last_chat.status = 400
    /\ last_chat.n_messages = 0 /\ last_chat.tools # <<>>
    /\ last_chat.model \in DOMAIN agent_map
    /\ session_store # <<>> /\ derived_sessions # <<>>

\* the chunks event_stream builds from backend events
EventChunks == {"reasoning", "content", "tool_calls", "finish"}

\* C20 (stream framing): the frames of a streaming response are the role primer
\* first and only first, then event chunks, then [DONE] last and only last; when
\* the backend raised in mid-stream there is exactly one error frame, it comes
\* right before [DONE] (no event chunk follows it), and when the backend did
\* not raise there is none.
C20_StreamFraming ==
    (last_chat.seq # 0 /\ last_chat.stream /\ last_chat.status = 200) =>
        LET f == last_chat.frames
            n == Len(f)
            errors == {i \in 1..n : f[i] = "error"}
        IN /\ n >= 2
           /\ f[1] = "primer" /\ f[n] = "[DONE]"
           /\ \A i \in 2..(n - 1) : f[i] \in EventChunks \cup {"error"}
           /\ errors \subseteq {n - 1}
           /\ last_chat.stream_raised <=> errors # {}

\* a stream that failed after an event chunk was sent
C20_Witness ==
    /\ last_chat.stream /\ last_chat.stream_raised
    /\ Len(last_chat.frames) = 4
    /\ last_chat.frames[2] \in EventChunks

\* C21 as stated (no retry against content known to fail): when the backend
\* reconciliation of apply_overlay(a, s, C) failed and apply_overlay(a, s, C)
\* follows with the state still cached, the second call issues no backend call.
C21_NoRetry ==
    [][ ( /\ OverlayPair
          /\ last_overlay'.content = last_overlay.content
          /\ last_overlay.content # <<>>
          /\ Failed(last_overlay) )
        => last_overlay'.calls = <<>> ]_vars

\* C21 amended (no retry once the session knows its block): when the backend
\* reconciliation of apply_overlay(a, s, C) failed and apply_overlay(a, s, C)
\* follows with the state still cached, the second call issues no backend call
\* if the session holds a block_id (the update of its block was what failed);
\* if it holds none, the second call does go to the backend again, starting with
\* the list of the agent's blocks.
C21_NoRetryKnownBlock ==
    [][ ( /\ OverlayPair
          /\ last_overlay'.content = last_overlay.content
          /\ last_overlay.content # <<>>
          /\ Failed(last_overlay) )
        => /\ last_overlay.block_id # NoBlock =>
                 (last_overlay'.calls = <<>> /\ last_overlay'.skipped)
           /\ last_overlay.block_id = NoBlock =>
                 ( /\ last_overlay'.calls # <<>>
                   /\ last_overlay'.calls[1] = Call("list", last_overlay'.agent, NoBlock, <<>>) )
      ]_vars

\* a call skipped on a session whose block still carries the content that the
\* failed update was to replace
C21_Witness ==
    /\ last_overlay.skipped /\ last_overlay.found /\ last_overlay.calls = <<>>
    /\ last_overlay.block_id # NoBlock
    /\ blocks[last_overlay.block_id].value # CleanContent(last_overlay.content)
    /\ session_store[Len(session_store)].st.fallback_applied

\* blocks that calls of this run created for the agent
MadeFor(a) == {b \in 1..Len(blocks) : blocks[b].made_for = a}

\* both coroutines have returned from apply_overlay for one session and one
\* content
SameCallTwice ==
    /\ tasks[1].pc = "done" /\ tasks[2].pc = "done"
    /\ tasks[1].session = tasks[2].session
    /\ tasks[1].content = tasks[2].content /\ tasks[1].content # <<>>

\* C22 (missing per-session mutual exclusion): two apply_overlay calls for the
\* same session and the same new content that interleave at their awaits, no
\* state being cached, both reach the create step: two overlay blocks made for
\* one agent without any backend failure, and two fallback messages returned for
\* one session and content, are states that are reached (the witnesses), and
\* they are reached only when the second call began while the first was
\* suspended at a backend call.
C22_DuplicatesByOverlap ==
    /\ (~faulted /\ Cardinality(MadeFor(RaceAgent)) >= 2) => overlapped
    /\ (SameCallTwice /\ tasks[1].fallback # <<>> /\ tasks[2].fallback # <<>>)
          => overlapped

\* both calls created and attached a block, no backend call having failed
C22_Witness ==
    /\ SameCallTwice /\ ~faulted /\ overlapped
    /\ tasks[1].changed /\ tasks[2].changed
    /\ Cardinality(MadeFor(RaceAgent)) = 2
    /\ \A b \in MadeFor(RaceAgent) :
          \E i \in 1..Len(agent_blocks[RaceAgent]) : agent_blocks[RaceAgent][i] = b

\* both calls failed and both returned the fallback message
C22_WitnessFallback ==
    /\ SameCallTwice /\ overlapped
    /\ Len(tasks[1].fallback) = 1 /\ tasks[1].fallback = tasks[2].fallback

\* C23 (late agent discovery): whatever came of the discovery at startup, a
\* request made after the first one that names an agent the backend has is not
\* rejected as an unknown model.
C23_LateDiscovery ==
    (last_chat.seq >= 2 /\ last_chat.model \in DOMAIN AgentMapFull)
        => last_chat.status # 404

\* the state a call for session s starts from: the stored one if it has not
\* expired, else a new one
StartState(s) ==
    IF \E i \in 1..Len(session_store) :
          /\ session_store[i].sid = s
          /\ now - session_store[i].st.last_updated <= TtlSeconds
    THEN session_store[CHOOSE i \in 1..Len(session_store) : session_store[i].sid = s].st
    ELSE NewState(now)

\* C24 (empty content is a no-op): an apply_overlay with empty or absent system
\* content issues no backend call, returns (false, []), changes nothing on the
\* backend, and leaves the session's state as the newest entry of the store with
\* the overlay_hash, block_id and fallback_applied it started from and the
\* current time as its timestamp.
C24_EmptyContentNoOp ==
    [][ (last_overlay'.seq # last_overlay.seq /\ last_overlay'.content = <<>>)
        => /\ last_overlay'.calls = <<>>
           /\ ~last_overlay'.changed /\ last_overlay'.fallback = <<>>
           /\ blocks' = blocks /\ agent_blocks' = agent_blocks
           /\ session_store' # <<>>
           /\ session_store'[Len(session_store')] =
                  [sid |-> last_overlay'.session,
                   st |-> [StartState(last_overlay'.session) EXCEPT !.last_updated = now]]
      ]_vars

\* an empty-content call on a session that holds a block and a hash, made later
\* than the call that stored them
C24_Witness ==
    /\ last_overlay.seq # 0 /\ last_overlay.content = <<>> /\ last_overlay.found
    /\ last_overlay.block_id # NoBlock
    /\ session_store[Len(session_store)].st.overlay_hash # NoHash
    /\ session_store[Len(session_store)].st.last_updated > 0

\* C25 (at most one fallback per failure episode): of two consecutive
\* apply_overlay(a, s, C) calls in both of which the backend fails, whether or
\* not the session's state is still in the store at the second, at most one
\* returns a fallback message.
C25_OneFallbackPerEpisode ==
    [][ ( /\ last_overlay.seq # 0
          /\ last_overlay'.seq # last_overlay.seq
          /\ last_overlay'.agent = last_overlay.agent
          /\ last_overlay'.session = last_overlay.session
          /\ last_overlay'.content = last_overlay.content
          /\ Failed(last_overlay) /\ Failed(last_overlay') )
        => Len(last_overlay.fallback) + Len(last_overlay'.fallback) <= 1 ]_vars

\* the call recorded in rec ended with an update or an attach that succeeded
Reconciled(rec) ==
    /\ rec.calls # <<>>
    /\ rec.calls[Len(rec.calls)].op \in {"modify", "attach"}
    /\ ~Failed(rec)

\* C26 (result shape of apply_overlay): every call returns at most one fallback
\* message and never changed = true with a fallback; changed = true is returned
\* exactly when the call's update, or its create and attach, succeeded, and then
\* the state stored for the session has the hash of the normalized content, a
\* block_id and fallback_applied = false.
C26_ResultShape ==
    last_overlay.seq # 0 =>
        /\ Len(last_overlay.fallback) <= 1
        /\ ~(last_overlay.changed /\ last_overlay.fallback # <<>>)
        /\ last_overlay.changed <=> Reconciled(last_overlay)
        /\ last_overlay.changed =>
              LET e == session_store[Len(session_store)] IN
              /\ e.sid = last_overlay.session
              /\ e.st.overlay_hash = HashContent(CleanContent(last_overlay.content))
              /\ e.st.block_id # NoBlock
              /\ e.st.block_id = last_overlay.calls[Len(last_overlay.calls)].block
              /\ ~e.st.fallback_applied

\* changed = true from a create that was repeated without limit and read_only
C26_Witness ==
    /\ last_overlay.changed /\ last_overlay.fail = "create_kw"
    /\ last_overlay.calls[Len(last_overlay.calls)].op = "attach"
    /\ session_store[Len(session_store)].st.block_id = Len(blocks)

\* the block that the last backend call of the call recorded in rec named
LastBlock(rec) == rec.calls[Len(rec.calls)].block

IsAttached(a, b) == \E i \in 1..Len(agent_blocks[a]) : agent_blocks[a][i] = b

\* C27 (orphan on partial create): when the block was created and its attach
\* failed, the call issued nothing after the attach (no delete), the created
\* block stays on the backend unattached, the session's block_id stays unset and
\* the call returns changed = false with the fallback message unless the session
\* has had it; and the next apply_overlay for that agent with a non-empty
\* content and a backend that succeeds lists the blocks, finds none with the
\* label, and creates and attaches a second block.
C27_OrphanOnPartialCreate ==
    /\ [](last_overlay.fail = "attach" =>
            /\ last_overlay.calls[Len(last_overlay.calls)].op = "attach"
            /\ \A i \in 1..Len(last_overlay.calls) :
                   last_overlay.calls[i].op \in {"list", "create", "create_plain", "attach"}
            /\ LastBlock(last_overlay) \in 1..Len(blocks)
            /\ blocks[LastBlock(last_overlay)].label = OVERLAY_LABEL
            /\ ~IsAttached(last_overlay.agent, LastBlock(last_overlay))
            /\ last_overlay.block_id = NoBlock
            /\ session_store[Len(session_store)].st.block_id = NoBlock
            /\ ~last_overlay.changed
            /\ Len(last_overlay.fallback) <= 1
            /\ ~last_overlay.found => Len(last_overlay.fallback) = 1)
    /\ [][ ( /\ last_overlay.fail = "attach"
             /\ last_overlay'.seq # last_overlay.seq
             /\ last_overlay'.agent = last_overlay.agent
             /\ last_overlay'.content # <<>>
             /\ last_overlay'.fail = "none" )
           => ( /\ Len(blocks') = Len(blocks) + 1
                /\ Len(last_overlay'.calls) = 3
                /\ last_overlay'.calls[1].op = "list"
                /\ last_overlay'.calls[2].op = "create"
                /\ last_overlay'.calls[3] =
                       Call("attach", last_overlay'.agent, Len(blocks'), <<>>)
                /\ last_overlay'.changed
                /\ \A i \in 1..Len(agent_blocks'[last_overlay.agent]) :
                      agent_blocks'[last_overlay.agent][i] # LastBlock(last_overlay) ) ]_vars

\* a second block created and attached while the first stays unattached
C27_Witness ==
    /\ last_overlay.changed /\ last_overlay.block_id # NoBlock
    /\ IsAttached(last_overlay.agent, last_overlay.block_id)
    /\ \E b \in 1..Len(blocks) :
          /\ b # last_overlay.block_id
          /\ blocks[b].made_for = last_overlay.agent
          /\ blocks[b].label = OVERLAY_LABEL
          /\ ~IsAttached(last_overlay.agent, b)

\* the names of the tools that the sync recorded in rec detached
DetachedBy(rec) ==
    {rec.calls[i].value : i \in {j \in 1..Len(rec.calls) : rec.calls[j].op = "detach"}}

\* C28 (mapping consistency after sync): after a sync(a, T), T non-empty, that
\* completed without backend failure, every name n of T is mapped to the id of
\* the tool prefix + n, which is attached to a; that id is mapped to the name
\* prefix + n; n is the only name mapped to that id, so the reverse lookup
\* returns n; and no entry of either mapping refers to a tool the call detached.
C28_MappingConsistency ==
    (last_sync.seq # 0 /\ ~last_sync.raised /\ last_sync.tools # <<>>) =>
        /\ \A i \in 1..Len(last_sync.tools) :
              LET n == last_sync.tools[i]
                  id == ToolId(Prefixed(n))
              IN /\ n \in DOMAIN tool_mapping /\ tool_mapping[n] = id
                 /\ Prefixed(n) \in agent_tools[last_sync.agent]
                 /\ id \in DOMAIN letta_name_mapping
                 /\ letta_name_mapping[id] = Prefixed(n)
                 /\ NamesOfToolId(tool_mapping, id) = {n}
                 /\ GetProxyToolName(tool_mapping, id) = n
        /\ \A d \in DetachedBy(last_sync) :
              /\ ToolId(d) \notin DOMAIN letta_name_mapping
              /\ NamesOfToolId(tool_mapping, ToolId(d)) = {}
              /\ GetProxyToolName(tool_mapping, ToolId(d)) = <<>>

\* a sync that detached one proxy tool and registered and attached another,
\* on a bridge that holds mappings for more than the tools of this call
C28_Witness ==
    /\ last_sync.seq # 0 /\ ~last_sync.raised /\ last_sync.tools # <<>>
    /\ DetachedBy(last_sync) # {}
    /\ \E i \in 1..Len(last_sync.calls) : last_sync.calls[i].op = "attach"
    /\ \A i \in 1..Len(last_sync.tools) : last_sync.tools[i] \in DOMAIN tool_mapping

\* where a step stands in the steps of the request served last, 0 if it was
\* not taken
StepAt(step) ==
    IF \E i \in 1..Len(last_chat.steps) : last_chat.steps[i] = step
    THEN CHOOSE i \in 1..Len(last_chat.steps) : last_chat.steps[i] = step
    ELSE 0

\* the request served last got past the checks of the model and the transcript
Accepted == last_chat.seq # 0 /\ last_chat.status \notin {400, 404}

C30_EmptyBatchShortCircuit ==
    (Accepted /\ last_chat.outbound = <<>>) =>
        /\ ~last_chat.sent /\ StepAt("message_call") = 0
        /\ last_chat.status = 200
        /\ IF last_chat.stream
           THEN last_chat.frames = <<"primer", "[DONE]">>
           ELSE /\ last_chat.content = <<>>
                /\ last_chat.finish_reason = "stop"
                /\ last_chat.usage = "zero"

\* C31 (the store behaves as the generic cache): after any sequence of get, set
\* and items operations and clock advances applied to a SessionOverlayStore and
\* a _TTLCache of equal capacity and TTL, the two report the same keys present.
C31_StoreMatchesCache == StoreKeysNow = CacheKeysNow

\* the step completes an apply_overlay call for a non-empty content whose
\* update of the session's block had failed before
AfterFailedUpdate ==
    /\ last_overlay'.seq # last_overlay.seq
    /\ last_overlay'.content # <<>>
    /\ last_overlay'.unapplied

\* the block the session's entry names before the step
KnownBlock == session_store[StoreIndex(session_store, last_overlay'.session)].st.block_id

\* C32 (recovery after a failed update), as stated: when the update of a
\* session's known block with content C has failed, a later apply_overlay(a, s, C)
\* on which no backend call fails issues the update again and leaves the block
\* holding the normalized C.
C32_RecoveryByRetry ==
    [][ (AfterFailedUpdate /\ last_overlay'.fail = "none")
        => /\ \E i \in 1..Len(last_overlay'.calls) :
                  last_overlay'.calls[i] =
                      Call("modify", "", KnownBlock, CleanContent(last_overlay'.content))
           /\ blocks'[KnownBlock].value = CleanContent(last_overlay'.content) ]_vars

\* C32 amended (recovery once the cached state has expired): after such a failed
\* update, a later apply_overlay(a, s, C) is skipped, with no backend call and
\* the block left as it was, as long as the session's state is still cached;
\* once that state has expired, the call lists the agent's
\* blocks, finds the block by its label and issues the update, and if no call
\* fails the block holds the normalized C.
C32_RecoveryAfterStateLoss ==
    [][ AfterFailedUpdate
        => IF last_overlay'.found
           THEN /\ last_overlay'.calls = <<>> /\ last_overlay'.skipped
                /\ blocks' = blocks
           ELSE /\ last_overlay'.calls # <<>>
                /\ last_overlay'.calls[1] = Call("list", last_overlay'.agent, NoBlock, <<>>)
                /\ last_overlay'.fail = "none" =>
                     /\ last_overlay'.calls[Len(last_overlay'.calls)] =
                            Call("modify", "", KnownBlock,
                                 CleanContent(last_overlay'.content))
                     /\ last_overlay'.changed
                     /\ blocks'[KnownBlock].value = CleanContent(last_overlay'.content) ]_vars

\* the state that recorded the failed update was lost, and the call that
\* followed found the block by its label and updated it
C32_Witness ==
    /\ last_overlay.unapplied /\ ~last_overlay.found
    /\ last_overlay.changed /\ Len(last_overlay.calls) = 2
    /\ last_overlay.calls[2].op = "modify"
    /\ blocks[last_overlay.block_id].value = CleanContent(last_overlay.content)

\* C33 (per-agent isolation of overlay state): an apply_overlay call for an agent
\* is never skipped on account of a block that was created for another agent, and
\* never issues an update of such a block, whatever the session id.
C33_AgentIsolation ==
    last_overlay.seq # 0 =>
        /\ last_overlay.skipped =>
               blocks[last_overlay.block_id].made_for = last_overlay.agent
        /\ \A i \in 1..Len(last_overlay.calls) :
               last_overlay.calls[i].op = "modify" =>
                   blocks[last_overlay.calls[i].block].made_for = last_overlay.agent

\* C34 (cache coherence across the sessions of an agent): with no backend call
\* ever failing and the calls made one after another, whenever an apply_overlay
\* call is skipped, the block that the session's state names holds the
\* normalized content of the call.
C34_SkipMeansApplied ==
    (~faulted /\ last_overlay.skipped) =>
        blocks[last_overlay.block_id].value = CleanContent(last_overlay.content)

\* C35 (a fallback message is never lost): when a request for which apply_overlay
\* returned a fallback message did not reach the message call, the next request
\* accepted for the same agent, session and system content either has the overlay
\* applied or carries the fallback message again.
C35_FallbackNotLost ==
    [][ ( /\ last_chat.seq # 0 /\ last_chat'.seq = last_chat.seq + 1
          /\ last_chat.fallback # <<>> /\ ~last_chat.sent
          /\ last_chat'.status \notin {400, 404}
          /\ last_chat'.agent = last_chat.agent
          /\ last_chat'.session = last_chat.session
          /\ last_chat'.system = last_chat.system )
        => (last_chat'.changed \/ last_chat'.fallback # <<>>) ]_vars

\* C36 (the fallback follows a change of content): when an apply_overlay call
\* that failed has returned the fallback message for C1 and the next call on the
\* session, its state still cached, carries a different content C2 and fails
\* too, that call returns one fallback message, carrying the normalized C2.
C36_FallbackFollowsContent ==
    [][ ( /\ OverlayPair
          /\ Failed(last_overlay) /\ last_overlay.fallback # <<>>
          /\ last_overlay'.content # <<>>
          /\ CleanContent(last_overlay'.content) # CleanContent(last_overlay.content)
          /\ Failed(last_overlay') )
        => last_overlay'.fallback =
               << FallbackMessage(CleanContent(last_overlay'.content)) >> ]_vars

\* C37 (tool mapping frame across agents): a sync for one agent, an empty list of
\* tools included, leaves as they were the mapping entries of every proxy tool
\* that is attached to another agent, so that the lookups for that agent's tools
\* resolve as before.
C37_MappingFrame ==
    [][ last_sync'.seq # last_sync.seq =>
          \A a1 \in Agents \ {last_sync'.agent} :
          \A n \in DOMAIN tool_mapping :
              (Prefixed(n) \in agent_tools'[a1] /\ tool_mapping[n] = ToolId(Prefixed(n)))
              => /\ n \in DOMAIN tool_mapping' /\ tool_mapping'[n] = tool_mapping[n]
                 /\ GetProxyToolName(tool_mapping', tool_mapping[n]) = n
                 /\ tool_mapping[n] \in DOMAIN letta_name_mapping
                        => /\ tool_mapping[n] \in DOMAIN letta_name_mapping'
                           /\ letta_name_mapping'[tool_mapping[n]] =
                                  letta_name_mapping[tool_mapping[n]] ]_vars

\* both coroutines have returned from apply_overlay for one session, each found
\* the session's state in the store when it began, and a backend call of each
\* raised
BothFailedOnCachedState ==
    /\ tasks[1].pc = "done" /\ tasks[2].pc = "done"
    /\ tasks[1].session = tasks[2].session
    /\ tasks[1].cached /\ tasks[2].cached
    /\ tasks[1].raised /\ tasks[2].raised

\* C38 (fallback under interleaving with a cached state): two apply_overlay calls
\* for a session whose state is cached, interleaved at their awaits and both
\* failing, return at most one fallback message between them.
C38_OneFallbackWhenCached ==
    BothFailedOnCachedState => Len(tasks[1].fallback) + Len(tasks[2].fallback) <= 1

\* the second call began while the first was suspended, both failed, and one of
\* them returned the fallback message
C38_Witness ==
    /\ BothFailedOnCachedState /\ overlapped
    /\ Len(tasks[1].fallback) + Len(tasks[2].fallback) = 1

\* both sync coroutines have returned, no backend call having raised, and they
\* asked for different sets of tools
BothSynced ==
    /\ tasks[1].pc = "done" /\ tasks[2].pc = "done"
    /\ ~tasks[1].raised /\ ~tasks[2].raised
    /\ RequestedLettaNames(tasks[1].tools) # RequestedLettaNames(tasks[2].tools)

\* C39 (tool reconciliation under interleaving): when two syncs for one agent
\* that ask for different sets of tools, interleaved at their awaits, have both
\* completed without backend failure, the proxy tools attached to the agent are
\* the tools one of the two asked for.
C39_InterleavedSyncExact ==
    BothSynced =>
        \E p \in Tasks : ProxyToolsOf(RaceAgent) = RequestedLettaNames(tasks[p].tools)

====
